---- MODULE Spec2Model ----
(***************************************************************************)
(* Stable-fluids solver of gmjoseph/fluid-sim-p in its two variants: the   *)
(* sequential solver (in-place Float32Array fields, Gauss-Seidel sweeps)   *)
(* and the WebGL solver (one fragment-shader pass per grid operation over  *)
(* double-buffered textures).                                              *)
(*                                                                         *)
(* Numbers.  Field values are fixed-point: an integer is a multiple of one *)
(* quantum of the float the code stores.  A float division is modelled by  *)
(* FDiv, which rounds toward zero, so a result is within one quantum of    *)
(* the real quotient.  Positions of the advection backtrace are counted in *)
(* Q-ths of a cell.  NaN and the infinities are not modelled.              *)
(***************************************************************************)
EXTENDS Integers, Sequences, FiniteSets, TLC

VARIABLES
    variant,   \* "seq": the sequential driver; "gl": the WebGL driver
    MODE,      \* the MODE constant of the build
    state,     \* the driver's state object (the six arrays: sequential only)
    gpu,       \* the GL object: textures, their contents, the latest pass
    pc,        \* steps of the current frame already taken; 0 between frames
    frames,    \* frames completed
    calls,     \* the calls begun in the current frame, in order
    last       \* unit specification: the one call made, its arguments, and
               \* what the array it wrote held before

vars == <<variant, MODE, state, gpu, pc, frames, calls, last>>

\* ---------------------------------------------------------------- bounds
\* interior resolution (the code runs 100 and 1024; the model a small grid)
N == 2
\* number of seeds the unit specification draws prior field contents from
MaxSeed == 4
\* largest time step, in Q-ths, the unit specification calls the solver with
MaxDt == 2
\* largest decay, in quanta, a solver call is made with
MaxDecay == 2
\* largest decay, in quanta, main() configures the frame loop with
MaxLoopDecay == 1
\* frames a run of the frame loop goes through
MaxFrames == 2
\* sub-cell resolution of a position: steps to the half cell
HalfQ == 2
\* interior resolution of the grid the projection is measured on
TestN == 4
\* the velocity 1.0 in the units of the projection measurement
Scale == 1000000

\* ------------------------------------------------------ program constants
\* sub-cell resolution of a position: Q-ths of a cell, HalfQ to the half cell
Q == 2 * HalfQ
\* relaxation sweeps of one linear solve
SWEEPS == 20
\* upper clamp of the density
DENSITY_MAX == 255
\* the frame's time step FPS = 1/60, in Q-ths
FPS == 1

CSB == N + 2
SIZE == CSB * CSB

Abs(a) == IF a < 0 THEN -a ELSE a

\* a float division a / b (b > 0), rounded toward zero
FDiv(a, b) == IF a >= 0 THEN a \div b ELSE -((-a) \div b)

Min2(a, b) == IF a < b THEN a ELSE b
Max2(a, b) == IF a > b THEN a ELSE b
clamp(x, lo, hi) == Min2(Max2(x, lo), hi)

IX(i, j) == i + j * CSB

\* the interior cells in the order of the code's loops: i outer, j inner
Cells == [k \in 1..(N * N) |-> <<((k - 1) \div N) + 1, ((k - 1) % N) + 1>>]

Zeros == [k \in 0..(SIZE - 1) |-> 0]

\* F applied to the finished value of v: a loop iteration works on the array
\* the iteration before it left, not on a pending computation of it
Then(v, F(_)) == CHOOSE r \in {F(y) : y \in {v}} : TRUE

\* =================================================== sequential solver

\* the edge loop of setBoundary, iterations i..N
RECURSIVE setBoundaryEdges(_, _, _)
setBoundaryEdges(x, b, i) ==
    IF i > N THEN x
    ELSE LET x1 == [x EXCEPT ![IX(0, i)] = IF b = 1 THEN -x[IX(1, i)] ELSE x[IX(1, i)]]
             x2 == [x1 EXCEPT ![IX(N + 1, i)] = IF b = 1 THEN -x1[IX(N, i)] ELSE x1[IX(N, i)]]
             x3 == [x2 EXCEPT ![IX(i, 0)] = IF b = 2 THEN -x2[IX(i, 1)] ELSE x2[IX(i, 1)]]
             x4 == [x3 EXCEPT ![IX(i, N + 1)] = IF b = 2 THEN -x3[IX(i, N)] ELSE x3[IX(i, N)]]
             rest(y) == setBoundaryEdges(y, b, i + 1)
         IN  Then(x4, rest)

\* the four corner assignments of setBoundary
setBoundaryCorners(x) ==
    LET x1 == [x EXCEPT ![IX(0, 0)] = FDiv(x[IX(1, 0)] + x[IX(0, 1)], 2)]
        x2 == [x1 EXCEPT ![IX(0, N + 1)] = FDiv(x1[IX(1, N + 1)] + x1[IX(0, N)], 2)]
        x3 == [x2 EXCEPT ![IX(N + 1, 0)] = FDiv(x2[IX(N, 0)] + x2[IX(N + 1, 1)], 2)]
        x4 == [x3 EXCEPT ![IX(N + 1, N + 1)] = FDiv(x3[IX(N, N + 1)] + x3[IX(N + 1, N)], 2)]
    IN  x4

\* a setBoundary that leaves the edge ghost cells as they were
setBoundary_noEdges(target, boundary) == setBoundaryCorners(target)

\* a setBoundary that leaves the corner ghost cells as they were
setBoundary_noCorners(target, boundary) == setBoundaryEdges(target, boundary, 1)

\* a setBoundary that writes the left wall's value one column inward as well
setBoundary_inward(target, boundary) ==
    LET x == setBoundaryCorners(setBoundaryEdges(target, boundary, 1))
    IN  [x EXCEPT ![IX(1, 1)] = x[IX(0, 1)]]

setBoundary(target, boundary) ==
    Then(setBoundaryEdges(target, boundary, 1), setBoundaryCorners)

\* one Gauss-Seidel sweep over the interior, cells k..N*N, in place
RECURSIVE solveLinearSweep(_, _, _, _, _)
solveLinearSweep(x, x0, a, c, k) ==
    IF k > N * N THEN x
    ELSE LET i == Cells[k][1]
             j == Cells[k][2]
             s == x[IX(i - 1, j)] + x[IX(i + 1, j)] + x[IX(i, j - 1)] + x[IX(i, j + 1)]
             rest(y) == solveLinearSweep(y, x0, a, c, k + 1)
         IN  Then([x EXCEPT ![IX(i, j)] = FDiv(x0[IX(i, j)] + a * s, c)], rest)

\* sweeps k..SWEEPS-1 of solveLinear, each followed by setBoundary
RECURSIVE solveLinearFrom(_, _, _, _, _, _)
solveLinearFrom(x, x0, boundary, a, c, k) ==
    IF k >= SWEEPS THEN x
    ELSE LET rest(y) == solveLinearFrom(y, x0, boundary, a, c, k + 1)
         IN  Then(setBoundary(solveLinearSweep(x, x0, a, c, 1), boundary), rest)

solveLinear(x, x0, boundary, a, c) == solveLinearFrom(x, x0, boundary, a, c, 0)

\* a diffuse that forgets the source term
diffuse_noSource(dt, target, source, diff, boundary) ==
    solveLinear(target, Zeros, boundary, dt * diff * N * N, 1 + 4 * (dt * diff * N * N))

\* diffuse returns the new contents of target
diffuse(dt, target, source, diff, boundary) ==
    LET a == dt * diff * N * N
    IN  solveLinear(target, source, boundary, a, 1 + 4 * a)

\* solveLinear called with x0 === x: the sweep reads x0[IX(i, j)] from the
\* array it is writing
RECURSIVE solveLinearSweep_aliased(_, _, _, _)
solveLinearSweep_aliased(x, a, c, k) ==
    IF k > N * N THEN x
    ELSE LET i == Cells[k][1]
             j == Cells[k][2]
             s == x[IX(i - 1, j)] + x[IX(i + 1, j)] + x[IX(i, j - 1)] + x[IX(i, j + 1)]
             rest(y) == solveLinearSweep_aliased(y, a, c, k + 1)
         IN  Then([x EXCEPT ![IX(i, j)] = FDiv(x[IX(i, j)] + a * s, c)], rest)

RECURSIVE solveLinearFrom_aliased(_, _, _, _, _)
solveLinearFrom_aliased(x, boundary, a, c, k) ==
    IF k >= SWEEPS THEN x
    ELSE LET rest(y) == solveLinearFrom_aliased(y, boundary, a, c, k + 1)
         IN  Then(setBoundary(solveLinearSweep_aliased(x, a, c, 1), boundary), rest)

\* diffuse(dt, target, target, diff, boundary): no argument is compared with
\* another, the solve runs on the one array
diffuse_aliased(dt, target, diff, boundary) ==
    LET a == dt * diff * N * N
    IN  solveLinearFrom_aliased(target, boundary, a, 1 + 4 * a, 0)

\* the backtraced, clamped sample position of advect at (i, j), in Q-ths
advectPos(i, dt0, vel) ==
    LET x  == i * Q - dt0 * vel
        x1 == IF x < HalfQ THEN HalfQ ELSE x
        x2 == IF x1 > N * Q + HalfQ THEN N * Q + HalfQ ELSE x1
    IN  x2

\* a bilinear sample whose weights s0 and t0 are always 1
bilinear_fullNearWeight(source, x, y) ==
    LET i0 == x \div Q
        i1 == i0 + 1
        j0 == y \div Q
        j1 == j0 + 1
        s1 == x - i0 * Q
        t1 == y - j0 * Q
    IN  FDiv(Q * (Q * source[IX(i0, j0)] + t1 * source[IX(i0, j1)])
             + s1 * (Q * source[IX(i1, j0)] + t1 * source[IX(i1, j1)]), Q * Q)

\* the bilinear sample of source at position (x, y), both in Q-ths
bilinear(source, x, y) ==
    LET i0 == x \div Q
        i1 == i0 + 1
        j0 == y \div Q
        j1 == j0 + 1
        s1 == x - i0 * Q
        s0 == Q - s1
        t1 == y - j0 * Q
        t0 == Q - t1
    IN  FDiv(s0 * (t0 * source[IX(i0, j0)] + t1 * source[IX(i0, j1)])
             + s1 * (t0 * source[IX(i1, j0)] + t1 * source[IX(i1, j1)]), Q * Q)

\* the cell loop of advect, cells k..N*N
RECURSIVE advectLoop(_, _, _, _, _, _)
advectLoop(dt0, target, source, u, v, k) ==
    IF k > N * N THEN target
    ELSE LET i == Cells[k][1]
             j == Cells[k][2]
             x == advectPos(i, dt0, u[IX(i, j)])
             y == advectPos(j, dt0, v[IX(i, j)])
         IN  advectLoop(dt0, [target EXCEPT ![IX(i, j)] = bilinear(source, x, y)],
                        source, u, v, k + 1)

\* advect returns the new contents of target
advect(dt, target, source, u, v, boundary) ==
    setBoundary(advectLoop(dt * N, target, source, u, v, 1), boundary)

\* advect(dt, target, target, u, v, boundary): the samples are read from the
\* array being written, cells written earlier in the loop included
RECURSIVE advectLoop_aliased(_, _, _, _, _)
advectLoop_aliased(dt0, target, u, v, k) ==
    IF k > N * N THEN target
    ELSE LET i == Cells[k][1]
             j == Cells[k][2]
             x == advectPos(i, dt0, u[IX(i, j)])
             y == advectPos(j, dt0, v[IX(i, j)])
             rest(t) == advectLoop_aliased(dt0, t, u, v, k + 1)
         IN  Then([target EXCEPT ![IX(i, j)] = bilinear(target, x, y)], rest)

advect_aliased(dt, target, u, v, boundary) ==
    setBoundary(advectLoop_aliased(dt * N, target, u, v, 1), boundary)

\* the first loop of project: the divergence into div, zeros into p
RECURSIVE projectDiv(_, _, _, _, _)
projectDiv(u, v, p, div, k) ==
    IF k > N * N THEN [p |-> p, div |-> div]
    ELSE LET i == Cells[k][1]
             j == Cells[k][2]
             d == FDiv(-(N * (u[IX(i + 1, j)] - u[IX(i - 1, j)]
                             + v[IX(i, j + 1)] - v[IX(i, j - 1)])), 2)
         IN  projectDiv(u, v, [p EXCEPT ![IX(i, j)] = 0],
                        [div EXCEPT ![IX(i, j)] = d], k + 1)

\* the second loop of project: the pressure gradient subtracted from (u, v)
RECURSIVE projectGrad(_, _, _, _)
projectGrad(u, v, p, k) ==
    IF k > N * N THEN [u |-> u, v |-> v]
    ELSE LET i == Cells[k][1]
             j == Cells[k][2]
         IN  projectGrad(
                [u EXCEPT ![IX(i, j)] = @ - FDiv(p[IX(i + 1, j)] - p[IX(i - 1, j)], 2 * N)],
                [v EXCEPT ![IX(i, j)] = @ - FDiv(p[IX(i, j + 1)] - p[IX(i, j - 1)], 2 * N)],
                p, k + 1)

\* a first half of project that leaves p as it was handed in
projectToRelaxation_keepP(u, v, p, div) ==
    [p |-> setBoundary(p, 0), div |-> setBoundary(projectDiv(u, v, p, div, 1).div, 0)]

\* project up to the call of solveLinear: the first loop and the two
\* setBoundary calls
projectToRelaxation(u, v, p, div) ==
    LET pd == projectDiv(u, v, p, div, 1)
    IN  [p |-> setBoundary(pd.p, 0), div |-> setBoundary(pd.div, 0)]

\* project from the call of solveLinear on
projectFromRelaxation(u, v, p, div) ==
    LET p1  == solveLinear(p, div, 0, 1, 4)
        uv1 == projectGrad(u, v, p1, 1)
    IN  [u |-> setBoundary(uv1.u, 1), v |-> setBoundary(uv1.v, 2), p |-> p1, div |-> div]

\* project returns the new contents of its four arrays
project(u, v, p, div) ==
    LET pd  == projectDiv(u, v, p, div, 1)
        dv1 == setBoundary(pd.div, 0)
        p0  == setBoundary(pd.p, 0)
        p1  == solveLinear(p0, dv1, 0, 1, 4)
        uv1 == projectGrad(u, v, p1, 1)
    IN  [u |-> setBoundary(uv1.u, 1), v |-> setBoundary(uv1.v, 2), p |-> p1, div |-> dv1]

\* ---- setBoundary, solveLinear and project as above, on a grid of n by n
\* interior cells (the code's N is a constant of the file; n stands for it)
IXn(n, i, j) == i + j * (n + 2)

CellsN(n) == [k \in 1..(n * n) |-> <<((k - 1) \div n) + 1, ((k - 1) % n) + 1>>]

ZerosN(n) == [k \in 0..((n + 2) * (n + 2) - 1) |-> 0]

RECURSIVE setBoundaryEdgesN(_, _, _, _)
setBoundaryEdgesN(n, x, b, i) ==
    IF i > n THEN x
    ELSE LET x1 == [x EXCEPT ![IXn(n, 0, i)] =
                       IF b = 1 THEN -x[IXn(n, 1, i)] ELSE x[IXn(n, 1, i)]]
             x2 == [x1 EXCEPT ![IXn(n, n + 1, i)] =
                       IF b = 1 THEN -x1[IXn(n, n, i)] ELSE x1[IXn(n, n, i)]]
             x3 == [x2 EXCEPT ![IXn(n, i, 0)] =
                       IF b = 2 THEN -x2[IXn(n, i, 1)] ELSE x2[IXn(n, i, 1)]]
             x4 == [x3 EXCEPT ![IXn(n, i, n + 1)] =
                       IF b = 2 THEN -x3[IXn(n, i, n)] ELSE x3[IXn(n, i, n)]]
             rest(y) == setBoundaryEdgesN(n, y, b, i + 1)
         IN  Then(x4, rest)

setBoundaryCornersN(n, x) ==
    LET x1 == [x EXCEPT ![IXn(n, 0, 0)] = FDiv(x[IXn(n, 1, 0)] + x[IXn(n, 0, 1)], 2)]
        x2 == [x1 EXCEPT ![IXn(n, 0, n + 1)] =
                  FDiv(x1[IXn(n, 1, n + 1)] + x1[IXn(n, 0, n)], 2)]
        x3 == [x2 EXCEPT ![IXn(n, n + 1, 0)] =
                  FDiv(x2[IXn(n, n, 0)] + x2[IXn(n, n + 1, 1)], 2)]
        x4 == [x3 EXCEPT ![IXn(n, n + 1, n + 1)] =
                  FDiv(x3[IXn(n, n, n + 1)] + x3[IXn(n, n + 1, n)], 2)]
    IN  x4

setBoundaryN(n, target, boundary) ==
    LET corners(x) == setBoundaryCornersN(n, x)
    IN  Then(setBoundaryEdgesN(n, target, boundary, 1), corners)

RECURSIVE solveLinearSweepN(_, _, _, _, _, _)
solveLinearSweepN(n, x, x0, a, c, k) ==
    IF k > n * n THEN x
    ELSE LET i == CellsN(n)[k][1]
             j == CellsN(n)[k][2]
             s == x[IXn(n, i - 1, j)] + x[IXn(n, i + 1, j)]
                  + x[IXn(n, i, j - 1)] + x[IXn(n, i, j + 1)]
             rest(y) == solveLinearSweepN(n, y, x0, a, c, k + 1)
         IN  Then([x EXCEPT ![IXn(n, i, j)] = FDiv(x0[IXn(n, i, j)] + a * s, c)], rest)

RECURSIVE solveLinearFromN(_, _, _, _, _, _, _)
solveLinearFromN(n, x, x0, boundary, a, c, k) ==
    IF k >= SWEEPS THEN x
    ELSE LET rest(y) == solveLinearFromN(n, y, x0, boundary, a, c, k + 1)
         IN  Then(setBoundaryN(n, solveLinearSweepN(n, x, x0, a, c, 1), boundary), rest)

\* the divergence project computes at (i, j): -0.5 * h * (...), h = n
divergenceN(n, u, v, i, j) ==
    FDiv(-(n * (u[IXn(n, i + 1, j)] - u[IXn(n, i - 1, j)]
                + v[IXn(n, i, j + 1)] - v[IXn(n, i, j - 1)])), 2)

projectN(n, u, v, p, div) ==
    LET interior == {IXn(n, CellsN(n)[k][1], CellsN(n)[k][2]) : k \in 1..(n * n)}
        ij(c) == <<c % (n + 2), c \div (n + 2)>>
        div0 == [c \in DOMAIN div |->
                    IF c \in interior THEN divergenceN(n, u, v, ij(c)[1], ij(c)[2])
                    ELSE div[c]]
        pz   == [c \in DOMAIN p |-> IF c \in interior THEN 0 ELSE p[c]]
        dv1  == setBoundaryN(n, div0, 0)
        p0   == setBoundaryN(n, pz, 0)
        p1   == solveLinearFromN(n, p0, dv1, 0, 1, 4, 0)
        u1   == [c \in DOMAIN u |->
                    IF c \in interior
                    THEN u[c] - FDiv(p1[c + 1] - p1[c - 1], 2 * n) ELSE u[c]]
        v1   == [c \in DOMAIN v |->
                    IF c \in interior
                    THEN v[c] - FDiv(p1[c + (n + 2)] - p1[c - (n + 2)], 2 * n) ELSE v[c]]
    IN  [u |-> setBoundaryN(n, u1, 1), v |-> setBoundaryN(n, v1, 2), p |-> p1, div |-> dv1]

\* the body of fadeStep's loop on one cell
fadeCell(x, decay) ==
    LET a == x - decay
        b == IF a < 0 THEN 0 ELSE a
    IN  IF b > DENSITY_MAX THEN DENSITY_MAX ELSE b

\* a decay that forgets the upper clamp
fadeStep_noUpper(x, decay) == [i \in DOMAIN x |-> IF x[i] - decay < 0 THEN 0 ELSE x[i] - decay]

\* a decay of the interior cells only
fadeStep_interiorOnly(x, decay) ==
    [i \in DOMAIN x |->
        IF i % CSB \in 1..N /\ i \div CSB \in 1..N THEN fadeCell(x[i], decay) ELSE x[i]]

fadeStep(x, decay) == [i \in DOMAIN x |-> fadeCell(x[i], decay)]

\* the strength of the fan at row j of a column of n rows: 1 - |j / n * 2 - 1|,
\* as the numerator of a fraction over n
fanStrength(j, n) == n - Abs(2 * j - n)

\* the loop of addFanDensityForces, rows j..N
RECURSIVE addFanDensityForcesFrom(_, _)
addFanDensityForcesFrom(st, j) ==
    IF j > N THEN st
    ELSE LET index == 1 + j * CSB
         IN  addFanDensityForcesFrom(
                [st EXCEPT !.x[index] = @ + FDiv(st.sourceDensity * fanStrength(j, N), N),
                           !.u[index] = @ + FDiv(40 * fanStrength(j, N), N)], j + 1)

addFanDensityForces(st) == addFanDensityForcesFrom(st, 1)

\* ======================================================== WebGL solver
\* The GPU state g is a record: textures (this.textures: logical name ->
\* texture), data (texture -> contents), and, of the most recent pass, write
\* (the texture attached to the framebuffer) and reads (the textures bound to
\* the samplers of its program).

Names == <<"u0", "u0Next", "u", "uNext", "v0", "v0Next", "v", "vNext",
           "x0", "x0Next", "x", "xNext">>
Fields == {"u0", "u", "v0", "v", "x0", "x"}
NextOf == [u0 |-> "u0Next", u |-> "uNext", v0 |-> "v0Next", v |-> "vNext",
           x0 |-> "x0Next", x |-> "xNext",
           u0Next |-> "u0NextNext", uNext |-> "uNextNext", v0Next |-> "v0NextNext",
           vNext |-> "vNextNext", x0Next |-> "x0NextNext", xNext |-> "xNextNext"]

\* setupTextures: for the k-th key, textures[k] and textures[k + "Next"] are
\* set to two new textures; texture ids count the createTexture calls
RECURSIVE setupTexturesFrom(_, _)
setupTexturesFrom(textures, k) ==
    IF k > Len(Names) THEN textures
    ELSE setupTexturesFrom(
            (Names[k] :> (2 * k - 1)) @@ (NextOf[Names[k]] :> (2 * k)) @@ textures, k + 1)

setupTextures == setupTexturesFrom(<<>>, 1)

\* texelFetch(t, ivec2(x, y), 0).r; outside the texture the result is
\* undefined in GLSL ES 3.00: the build returns zero or the nearest texel
texelFetch(t, x, y, oobMode) ==
    IF x \in 0..(CSB - 1) /\ y \in 0..(CSB - 1) THEN t[IX(x, y)]
    ELSE IF oobMode = "zero" THEN 0
    ELSE t[IX(clamp(x, 0, CSB - 1), clamp(y, 0, CSB - 1))]

\* one draw of the full-screen quad: the fragment shader at every texel
draw(shader(_, _)) == [k \in 0..(SIZE - 1) |-> shader(k % CSB, k \div CSB)]

solveLinearShader(u_x, u_x0, u_a, u_c, oobMode) ==
    LET main(px, py) ==
            LET l  == texelFetch(u_x, px - 1, py, oobMode)
                r  == texelFetch(u_x, px + 1, py, oobMode)
                t  == texelFetch(u_x, px, py - 1, oobMode)
                b  == texelFetch(u_x, px, py + 1, oobMode)
                x0 == texelFetch(u_x0, px, py, oobMode)
            IN  FDiv(u_a * (x0 + l + r + t + b), u_c)
    IN  draw(main)

\* the backtraced coordinate of the advect shader at texel coordinate p, in
\* Q-ths: clamp(float(p) - u_dt0 * vel, 0.5, float(size)), size = CSB - 2
advectShaderPos(p, u_dt0, vel) == clamp(p * Q - u_dt0 * vel, HalfQ, (CSB - 2) * Q)

advectShader(u_source, u_u, u_v, u_dt0, oobMode) ==
    LET main(px, py) ==
            LET x  == advectShaderPos(px, u_dt0, texelFetch(u_u, px, py, oobMode))
                y  == advectShaderPos(py, u_dt0, texelFetch(u_v, px, py, oobMode))
                i0 == x \div Q
                i1 == i0 + 1
                j0 == y \div Q
                j1 == j0 + 1
                s1 == x - i0 * Q
                s0 == Q - s1
                t1 == y - j0 * Q
                t0 == Q - t1
                a  == texelFetch(u_source, i0, j0, oobMode)
                b  == texelFetch(u_source, i0, j1, oobMode)
                c  == texelFetch(u_source, i1, j0, oobMode)
                d  == texelFetch(u_source, i1, j1, oobMode)
            IN  FDiv(s0 * (t0 * a + t1 * b) + s1 * (t0 * c + t1 * d), Q * Q)
    IN  draw(main)

divergenceShader(u_u, u_v, u_h, oobMode) ==
    LET main(px, py) ==
            LET l == texelFetch(u_u, px - 1, py, oobMode)
                r == texelFetch(u_u, px + 1, py, oobMode)
                t == texelFetch(u_v, px, py - 1, oobMode)
                b == texelFetch(u_v, px, py + 1, oobMode)
            IN  FDiv(-(u_h * (r - l + b - t)), 2)
    IN  draw(main)

velocityShader(u_uv, u_p, u_h, u_direction, oobMode) ==
    LET main(px, py) ==
            LET uv == texelFetch(u_uv, px, py, oobMode)
                l  == texelFetch(u_p, px - 1, py, oobMode)
                r  == texelFetch(u_p, px + 1, py, oobMode)
                t  == texelFetch(u_p, px, py - 1, oobMode)
                b  == texelFetch(u_p, px, py + 1, oobMode)
            IN  IF u_direction = 0 THEN uv - FDiv(r - l, 2 * u_h)
                ELSE uv - FDiv(b - t, 2 * u_h)
    IN  draw(main)

\* the shader's ifs in their order: a later assignment overrides an earlier
setBoundaryShader(u_x, u_b, oobMode) ==
    LET get(x, y) == texelFetch(u_x, x, y, oobMode)
        sx == CSB - 2
        sy == CSB - 2
        main(px, py) ==
            LET c0 == get(px, py)
                c1 == IF px = 0 /\ py >= 1
                      THEN (IF u_b = 1 THEN -1 ELSE 1) * get(1, py) ELSE c0
                c2 == IF px = sx + 1 /\ py >= 1
                      THEN (IF u_b = 1 THEN -1 ELSE 1) * get(sx, py) ELSE c1
                c3 == IF px >= 1 /\ py = 0
                      THEN (IF u_b = 2 THEN -1 ELSE 1) * get(px, 1) ELSE c2
                c4 == IF px >= 1 /\ py = sy + 1
                      THEN (IF u_b = 2 THEN -1 ELSE 1) * get(px, sy) ELSE c3
                c5 == IF px = 0 /\ py = 0
                      THEN FDiv(get(1, 0) + get(0, 1), 2) ELSE c4
                c6 == IF px = 0 /\ py = sy + 1
                      THEN FDiv(get(1, sy + 1) + get(0, sy), 2) ELSE c5
                c7 == IF px = sx + 1 /\ py = 0
                      THEN FDiv(get(sx, 0) + get(sx + 1, 1), 2) ELSE c6
                c8 == IF px = sx + 1 /\ py = sy + 1
                      THEN FDiv(get(sx, sy + 1) + get(sx + 1, sy), 2) ELSE c7
            IN  c8
    IN  draw(main)

fadeShader(u_x, u_density_decay, oobMode) ==
    LET main(px, py) == clamp(texelFetch(u_x, px, py, oobMode) - u_density_decay,
                              0, DENSITY_MAX)
    IN  draw(main)

addFanDensityShader(u_x, u_source_density, oobMode) ==
    LET main(px, py) ==
            LET x == texelFetch(u_x, px, py, oobMode)
            IN  IF px = 1
                THEN x + FDiv(u_source_density * fanStrength(py, CSB) * 10, CSB)
                ELSE x
    IN  draw(main)

addFanVelocityShader(u_u, oobMode) ==
    LET main(px, py) ==
            LET u == texelFetch(u_u, px, py, oobMode)
            IN  IF px = 1 THEN u + FDiv(fanStrength(py, CSB) * 5, CSB) ELSE u
    IN  draw(main)

addMouseDensityShader(u_x, u_source_density, u_target, oobMode) ==
    LET main(px, py) ==
            LET x == texelFetch(u_x, px, py, oobMode)
            IN  IF \/ px = u_target[1] /\ py = u_target[2]
                   \/ px - 1 = u_target[1] /\ py = u_target[2]
                   \/ px + 1 = u_target[1] /\ py = u_target[2]
                   \/ px = u_target[1] /\ py - 1 = u_target[2]
                   \/ px = u_target[1] /\ py + 1 = u_target[2]
                THEN x + u_source_density
                ELSE x
    IN  draw(main)

addMouseVelocityShader(u_uv, u_target, u_velocity, oobMode) ==
    LET main(px, py) ==
            LET uv == texelFetch(u_uv, px, py, oobMode)
            IN  IF px = u_target[1] /\ py = u_target[2]
                THEN uv + FDiv(u_velocity * 2 * 15, Abs(u_velocity) + 1)
                ELSE uv
    IN  draw(main)

\* ---- the methods of class GL: one pass each.  g.oob is the build's answer
\* to an out-of-range texelFetch.

\* the pass `op` on the logical field `field`: it read the textures `reads`,
\* drew `out` into the texture `write`, and then (swap) exchanged the names
\* field and fieldNext; before is this.textures as the pass found it
\* a pass whose swap assigns the handle of FNext to F and leaves FNext alone
pass_oneWaySwap(g, op, field, swap, reads, write, out) ==
    [g EXCEPT !.data[write] = out,
              !.op = op,
              !.field = field,
              !.before = g.textures,
              !.reads = reads,
              !.write = write,
              !.textures = IF swap
                           THEN [@ EXCEPT ![field] = g.textures[NextOf[field]]]
                           ELSE @]

pass(g, op, field, swap, reads, write, out) ==
    [g EXCEPT !.data[write] = out,
              !.op = op,
              !.field = field,
              !.before = g.textures,
              !.reads = reads,
              !.write = write,
              !.textures = IF swap
                           THEN [@ EXCEPT ![field] = g.textures[NextOf[field]],
                                          ![NextOf[field]] = g.textures[field]]
                           ELSE @]

GL_addFanDensity(g, sourceDensity) ==
    LET sourceTex == g.textures["x"]
        targetTex == g.textures["xNext"]
    IN  pass(g, "addFanDensity", "x", TRUE, {sourceTex}, targetTex,
             addFanDensityShader(g.data[sourceTex], sourceDensity, g.oob))

GL_addFanVelocity(g) ==
    LET sourceTex == g.textures["u"]
        targetTex == g.textures["uNext"]
    IN  pass(g, "addFanVelocity", "u", TRUE, {sourceTex}, targetTex,
             addFanVelocityShader(g.data[sourceTex], g.oob))

GL_addMouseDensity(g, sourceDensity, target) ==
    LET sourceTex == g.textures["x"]
        targetTex == g.textures["xNext"]
    IN  pass(g, "addMouseDensity", "x", TRUE, {sourceTex}, targetTex,
             addMouseDensityShader(g.data[sourceTex], sourceDensity, target, g.oob))

\* uv is "u" with the x velocity, then "v" with the y velocity
GL_addMouseVelocity(g, uv, target, velocity) ==
    LET sourceTex == g.textures[uv]
        targetTex == g.textures[NextOf[uv]]
    IN  pass(g, "addMouseVelocity", uv, TRUE, {sourceTex}, targetTex,
             addMouseVelocityShader(g.data[sourceTex], target, velocity, g.oob))

\* a solveLinear that draws into the texture it samples
GL_solveLinear_inPlace(g, x, x0, a, c) ==
    LET xTex  == g.textures[x]
        x0Tex == g.textures[x0]
    IN  pass(g, "solveLinear", x, FALSE, {xTex, x0Tex}, xTex,
             solveLinearShader(g.data[xTex], g.data[x0Tex], a, c, g.oob))

GL_solveLinear(g, x, x0, a, c) ==
    LET xTex     == g.textures[x]
        x0Tex    == g.textures[x0]
        xTexNext == g.textures[NextOf[x]]
    IN  pass(g, "solveLinear", x, TRUE, {xTex, x0Tex}, xTexNext,
             solveLinearShader(g.data[xTex], g.data[x0Tex], a, c, g.oob))

GL_divergence(g, h, target, u, v) ==
    LET uTex      == g.textures[u]
        vTex      == g.textures[v]
        targetTex == g.textures[target]
    IN  pass(g, "divergence", target, FALSE, {uTex, vTex}, targetTex,
             divergenceShader(g.data[uTex], g.data[vTex], h, g.oob))

GL_velocity(g, h, uv, p, direction) ==
    LET uvTex     == g.textures[uv]
        pTex      == g.textures[p]
        uvTexNext == g.textures[NextOf[uv]]
    IN  pass(g, "velocity", uv, TRUE, {uvTex, pTex}, uvTexNext,
             velocityShader(g.data[uvTex], g.data[pTex], h, direction, g.oob))

\* an advect pass that samples one cell to the right of the backtraced position
GL_advect_offset(g, dt0, target, source, u, v) ==
    LET sourceTex == g.textures[source]
        uTex      == g.textures[u]
        vTex      == g.textures[v]
        targetTex == g.textures[target]
    IN  pass(g, "advect", target, FALSE, {sourceTex, uTex, vTex}, targetTex,
             advectShader(g.data[sourceTex], [k \in 0..(SIZE - 1) |-> g.data[uTex][k] - 1],
                          g.data[vTex], dt0, g.oob))

GL_advect(g, dt0, target, source, u, v) ==
    LET sourceTex == g.textures[source]
        uTex      == g.textures[u]
        vTex      == g.textures[v]
        targetTex == g.textures[target]
    IN  pass(g, "advect", target, FALSE, {sourceTex, uTex, vTex}, targetTex,
             advectShader(g.data[sourceTex], g.data[uTex], g.data[vTex], dt0, g.oob))

\* a setBoundary pass that negates on the wrong axis
GL_setBoundary_swappedAxes(g, target, boundary) ==
    LET xTex     == g.textures[target]
        xTexNext == g.textures[NextOf[target]]
    IN  pass(g, "setBoundary", target, TRUE, {xTex}, xTexNext,
             setBoundaryShader(g.data[xTex],
                 IF boundary = 1 THEN 2 ELSE IF boundary = 2 THEN 1 ELSE boundary, g.oob))

\* a setBoundary pass that forgets to exchange the two names
GL_setBoundary_noSwap(g, target, boundary) ==
    LET xTex     == g.textures[target]
        xTexNext == g.textures[NextOf[target]]
    IN  pass(g, "setBoundary", target, FALSE, {xTex}, xTexNext,
             setBoundaryShader(g.data[xTex], boundary, g.oob))

GL_setBoundary(g, target, boundary) ==
    LET xTex     == g.textures[target]
        xTexNext == g.textures[NextOf[target]]
    IN  pass(g, "setBoundary", target, TRUE, {xTex}, xTexNext,
             setBoundaryShader(g.data[xTex], boundary, g.oob))

GL_fade(g, densityDecay) ==
    LET sourceTex == g.textures["x"]
        targetTex == g.textures["xNext"]
    IN  pass(g, "fade", "x", TRUE, {sourceTex}, targetTex,
             fadeShader(g.data[sourceTex], densityDecay, g.oob))

\* copyTexImage2D from the framebuffer (the source texture) into the target
\* texture; source = target throws before anything is bound
GL_copyPixels(g, source, target) ==
    LET sourceTex == g.textures[source]
        targetTex == g.textures[target]
    IN  IF source = target
        THEN [g EXCEPT !.op = "throw", !.field = target, !.before = g.textures,
                       !.reads = {}, !.write = 0]
        ELSE pass(g, "copyPixels", target, FALSE, {sourceTex}, targetTex, g.data[sourceTex])

\* render draws to the canvas: no texture is written
GL_render(g, source) ==
    [g EXCEPT !.op = "render", !.field = source, !.before = g.textures,
              !.reads = {g.textures[source]}, !.write = 0]

\* the contents of the logical field `name`
Field(g, name) == g.data[g.textures[name]]

\* ====================================================== the two drivers
\* A frame is a sequence of steps.  A step of the sequential driver is one
\* call of a solver function; a step of the WebGL driver is one pass.  Each
\* step carries the call of velocityStep, densityStep, update or run that it
\* belongs to.

MODES == [Fan |-> 0, Mouse |-> 1, Dual |-> 2]

\* no event yet: the null of state.mouse and state.mouse0
null == [x |-> -1, y |-> -1]

NoCall == [fn |-> "-", target |-> "-", source |-> "-", u |-> "-", v |-> "-",
           p |-> "-", div |-> "-", boundary |-> -1]

\* nothing called yet
NoLast == [call |-> NoCall, dt |-> 0, diff |-> 0, prior |-> Zeros, thrown |-> FALSE]

\* every step s of steps, as part of `call`
InCall(call, steps) == [k \in DOMAIN steps |-> [steps[k] EXCEPT !.call = call]]

RECURSIVE Repeat(_, _)
Repeat(steps, n) == IF n = 0 THEN <<>> ELSE steps \o Repeat(steps, n - 1)

\* ---- index.js
solveLinearJacobi(xk, x0k, boundary, a, c) ==
    Repeat(<<[call |-> NoCall, op |-> "solveLinear", x |-> xk, x0 |-> x0k, a |-> a, c |-> c],
             [call |-> NoCall, op |-> "setBoundary", target |-> xk, boundary |-> boundary]>>,
           SWEEPS)

webgl_diffuse(target, source, boundary) ==
    InCall([NoCall EXCEPT !.fn = "diffuse", !.target = target, !.source = source,
                          !.boundary = boundary],
           <<[call |-> NoCall, op |-> "setBoundary", target |-> source, boundary |-> boundary],
             [call |-> NoCall, op |-> "copyPixels", source |-> source, target |-> target]>>)

webgl_advect(dt, target, source, u, v, boundary) ==
    InCall([NoCall EXCEPT !.fn = "advect", !.target = target, !.source = source,
                          !.u = u, !.v = v, !.boundary = boundary],
           <<[call |-> NoCall, op |-> "advect", dt0 |-> dt * N, target |-> target,
              source |-> source, u |-> u, v |-> v],
             [call |-> NoCall, op |-> "setBoundary", target |-> target, boundary |-> boundary]>>)

webgl_project(u, v, p, div) ==
    InCall([NoCall EXCEPT !.fn = "project", !.u = u, !.v = v, !.p = p, !.div = div],
           <<[call |-> NoCall, op |-> "divergence", h |-> N, target |-> div, u |-> u, v |-> v],
             [call |-> NoCall, op |-> "setBoundary", target |-> div, boundary |-> 0],
             [call |-> NoCall, op |-> "setBoundary", target |-> p, boundary |-> 0]>>
           \o solveLinearJacobi(p, div, 0, 1, 4)
           \o <<[call |-> NoCall, op |-> "velocity", h |-> N, uv |-> u, p |-> p, direction |-> 0],
                [call |-> NoCall, op |-> "velocity", h |-> N, uv |-> v, p |-> p, direction |-> 1],
                [call |-> NoCall, op |-> "setBoundary", target |-> u, boundary |-> 1],
                [call |-> NoCall, op |-> "setBoundary", target |-> v, boundary |-> 2]>>)

webgl_densityStep(dt) ==
    webgl_diffuse("x0", "x", 0) \o webgl_advect(dt, "x", "x0", "u", "v", 0)

\* a velocityStep that advects before it projects
webgl_velocityStep_advectFirst(dt) ==
    webgl_diffuse("u0", "u", 1)
    \o webgl_diffuse("v0", "v", 2)
    \o webgl_advect(dt, "u", "u0", "u0", "v0", 1)
    \o webgl_advect(dt, "v", "v0", "u0", "v0", 2)
    \o webgl_project("u0", "v0", "u", "v")
    \o webgl_project("u", "v", "u0", "v0")

webgl_velocityStep(dt) ==
    webgl_diffuse("u0", "u", 1)
    \o webgl_diffuse("v0", "v", 2)
    \o webgl_project("u0", "v0", "u", "v")
    \o webgl_advect(dt, "u", "u0", "u0", "v0", 1)
    \o webgl_advect(dt, "v", "v0", "u0", "v0", 2)
    \o webgl_project("u", "v", "u0", "v0")

\* getCoords: the position of the event in the canvas, its axes exchanged
webgl_getCoords(e) == [cx |-> e.y, cy |-> e.x]

webgl_addFanDensityForces ==
    InCall([NoCall EXCEPT !.fn = "addFanDensityForces"],
           <<[call |-> NoCall, op |-> "addFanDensity"],
             [call |-> NoCall, op |-> "addFanVelocity"]>>)

\* st is the driver's state object; the event fields are null or an event
webgl_addMouseDensityForces(st) ==
    InCall([NoCall EXCEPT !.fn = "addMouseDensityForces"],
           IF ~st.mouseDown \/ st.mouse0 = null
           THEN <<[call |-> NoCall, op |-> "return"]>>
           ELSE LET c  == webgl_getCoords(st.mouse)
                    pc0 == webgl_getCoords(st.mouse0)
                    xv == c.cx - pc0.cx
                    yv == c.cy - pc0.cy
                    t  == <<c.cx, c.cy>>
                IN  <<[call |-> NoCall, op |-> "addMouseDensity", target |-> t],
                      [call |-> NoCall, op |-> "addMouseVelocity", uv |-> "u", target |-> t,
                       velocity |-> xv],
                      [call |-> NoCall, op |-> "addMouseVelocity", uv |-> "v", target |-> t,
                       velocity |-> yv]>>)

webgl_update(dt, st, mode) ==
    (IF mode = MODES.Fan \/ mode = MODES.Dual THEN webgl_addFanDensityForces ELSE <<>>)
    \o (IF mode = MODES.Mouse \/ mode = MODES.Dual
        THEN webgl_addMouseDensityForces(st) ELSE <<>>)
    \o webgl_velocityStep(dt)
    \o webgl_densityStep(dt)
    \o <<[call |-> [NoCall EXCEPT !.fn = "fade"], op |-> "fade"]>>

\* the body of loop's run: update, then render
webgl_run(st, mode) ==
    webgl_update(FPS, st, mode)
    \o <<[call |-> [NoCall EXCEPT !.fn = "render"], op |-> "render", source |-> "x"]>>

\* ---- the sequential driver

\* x[index] += d on a Float32Array: an index outside the array stores nothing
addAt(x, index, d) == IF index \in DOMAIN x THEN [x EXCEPT ![index] = @ + d] ELSE x

\* e is the position of the pointer in the canvas, in cells: the code's
\* ((N / width) * cx) | 0
addMouseDensityForces(st) ==
    IF ~st.mouseDown \/ st.mouse0 = null THEN st
    ELSE LET tx == st.mouse.x
             ty == st.mouse.y
             index == tx + ty * CSB
             x1 == addAt(st.x, index, st.sourceDensity)
             x2 == addAt(x1, index + 1, st.sourceDensity)
             x3 == addAt(x2, index - 1, st.sourceDensity)
             x4 == addAt(x3, index - CSB, st.sourceDensity)
             x5 == addAt(x4, index + CSB, st.sourceDensity)
             xv == st.mouse.x - st.mouse0.x
             yv == st.mouse.y - st.mouse0.y
         IN  [st EXCEPT !.x = x5,
                        !.u = addAt(st.u, index, FDiv(xv * 2 * 15, Abs(xv) + 1)),
                        !.v = addAt(st.v, index, FDiv(yv * 2 * 15, Abs(yv) + 1))]

densityStep(dt) ==
    <<[call |-> [NoCall EXCEPT !.fn = "diffuse", !.target = "x0", !.source = "x",
                               !.boundary = 0], op |-> "diffuse", dt |-> dt, diff |-> "diffuse"],
      [call |-> [NoCall EXCEPT !.fn = "advect", !.target = "x", !.source = "x0",
                               !.u = "u", !.v = "v", !.boundary = 0], op |-> "advect", dt |-> dt]>>

velocityStep(dt) ==
    <<[call |-> [NoCall EXCEPT !.fn = "diffuse", !.target = "u0", !.source = "u",
                               !.boundary = 1], op |-> "diffuse", dt |-> dt, diff |-> "viscocity"],
      [call |-> [NoCall EXCEPT !.fn = "diffuse", !.target = "v0", !.source = "v",
                               !.boundary = 2], op |-> "diffuse", dt |-> dt, diff |-> "viscocity"],
      [call |-> [NoCall EXCEPT !.fn = "project", !.u = "u0", !.v = "v0", !.p = "u",
                               !.div = "v"], op |-> "project"],
      [call |-> [NoCall EXCEPT !.fn = "advect", !.target = "u", !.source = "u0",
                               !.u = "u0", !.v = "v0", !.boundary = 1], op |-> "advect", dt |-> dt],
      [call |-> [NoCall EXCEPT !.fn = "advect", !.target = "v", !.source = "v0",
                               !.u = "u0", !.v = "v0", !.boundary = 2], op |-> "advect", dt |-> dt],
      [call |-> [NoCall EXCEPT !.fn = "project", !.u = "u", !.v = "v", !.p = "u0",
                               !.div = "v0"], op |-> "project"]>>

update(dt) ==
    velocityStep(dt) \o densityStep(dt)
    \o <<[call |-> [NoCall EXCEPT !.fn = "fade"], op |-> "fadeStep"]>>

\* a run that draws before the decay
run_drawFirst(mode) ==
    (IF mode = MODES.Fan
     THEN <<[call |-> [NoCall EXCEPT !.fn = "addFanDensityForces"], op |-> "addFanDensityForces"]>>
     ELSE <<[call |-> [NoCall EXCEPT !.fn = "addMouseDensityForces"],
             op |-> "addMouseDensityForces"]>>)
    \o velocityStep(FPS) \o densityStep(FPS)
    \o <<[call |-> [NoCall EXCEPT !.fn = "render"], op |-> "draw"],
         [call |-> [NoCall EXCEPT !.fn = "fade"], op |-> "fadeStep"]>>

\* the body of loop's run: the density sources of the mode, update, draw
run(mode) ==
    (IF mode = MODES.Fan
     THEN <<[call |-> [NoCall EXCEPT !.fn = "addFanDensityForces"], op |-> "addFanDensityForces"]>>
     ELSE <<[call |-> [NoCall EXCEPT !.fn = "addMouseDensityForces"],
             op |-> "addMouseDensityForces"]>>)
    \o update(FPS)
    \o <<[call |-> [NoCall EXCEPT !.fn = "render"], op |-> "draw"]>>

\* a handler that keeps the first event as the previous position
moveHandler_firstMoveKept(st, e) ==
    [st EXCEPT !.mouse0 = IF st.mouse = null THEN e ELSE st.mouse, !.mouse = e]

\* the event handlers of setupHandlers, on the driver's state object
moveHandler(st, e) ==
    LET st1 == IF st.mouse0 = null THEN [st EXCEPT !.mouse0 = e] ELSE st
        st2 == [st1 EXCEPT !.mouse0 = st1.mouse]
    IN  [st2 EXCEPT !.mouse = e]

\* ============================================== the frame loop (Spec)

MousePositions == {[x |-> 0, y |-> 1], [x |-> 1, y |-> 1]}

\* main(): the decay and the source density of each mode are set before the
\* loop starts; the decay is one of 0..MaxLoopDecay quanta
SourceDensityOf(m) == IF m = MODES.Fan THEN 5 ELSE 12

NewState(m, decay, arrays) ==
    [u |-> arrays[1], u0 |-> arrays[2], v |-> arrays[3], v0 |-> arrays[4],
     x |-> arrays[5], x0 |-> arrays[6],
     diffuse |-> 0, viscocity |-> 0,
     densityDecay |-> decay, sourceDensity |-> SourceDensityOf(m),
     mouseDown |-> FALSE, mouse0 |-> null, mouse |-> null]

\* the GL object after its constructor
NewGL(oobMode, contents) ==
    [textures |-> setupTextures,
     data |-> [t \in {setupTextures[Names[k]] : k \in 1..Len(Names)} |->
                  contents[CHOOSE k \in 1..Len(Names) : setupTextures[Names[k]] = t]],
     op |-> "-", field |-> "-", before |-> setupTextures,
     reads |-> {}, write |-> 0, oob |-> oobMode]

Init ==
    /\ variant \in {"seq", "gl"}
    /\ MODE \in (IF variant = "seq" THEN {MODES.Fan, MODES.Mouse}
                 ELSE {MODES.Fan, MODES.Mouse, MODES.Dual})
    /\ \E decay \in 0..MaxLoopDecay :
          state = NewState(MODE, decay, [k \in 1..6 |-> Zeros])
    /\ \E oobMode \in (IF variant = "gl" THEN {"zero", "edge"} ELSE {"zero"}) :
          gpu = NewGL(oobMode, [k \in 1..Len(Names) |-> Zeros])
    /\ pc = 0
    /\ frames = 0
    /\ calls = <<>>
    /\ last = NoLast

prog == IF variant = "seq" THEN run(MODE) ELSE webgl_run(state, MODE)

\* the step the driver is about to take
step == prog[pc + 1]

\* the bookkeeping of a step: position, frame count, calls begun
Advance ==
    /\ pc' = IF pc + 1 = Len(prog) THEN 0 ELSE pc + 1
    /\ frames' = IF pc + 1 = Len(prog) THEN frames + 1 ELSE frames
    /\ calls' = IF pc = 0 THEN <<step.call>>
                ELSE IF calls[Len(calls)] = step.call THEN calls
                ELSE Append(calls, step.call)
    /\ UNCHANGED <<variant, MODE, last>>

\* a step of kind op of the driver v is due
Due(v, op) ==
    /\ variant = v
    /\ frames < MaxFrames
    /\ step.op = op

\* ---- events: the handlers run between frames
MouseDown == /\ pc = 0
             /\ state' = [state EXCEPT !.mouseDown = TRUE]
             /\ UNCHANGED <<variant, MODE, gpu, pc, frames, calls, last>>

MouseUp == /\ pc = 0
           /\ state' = [state EXCEPT !.mouseDown = FALSE]
           /\ UNCHANGED <<variant, MODE, gpu, pc, frames, calls, last>>

MouseMove == /\ pc = 0
             /\ \E e \in MousePositions : state' = moveHandler(state, e)
             /\ UNCHANGED <<variant, MODE, gpu, pc, frames, calls, last>>

\* ---- steps of the sequential driver
SeqAddFanDensityForces ==
    /\ Due("seq", "addFanDensityForces")
    /\ state' = addFanDensityForces(state)
    /\ Advance /\ UNCHANGED gpu

SeqAddMouseDensityForces ==
    /\ Due("seq", "addMouseDensityForces")
    /\ state' = addMouseDensityForces(state)
    /\ Advance /\ UNCHANGED gpu

SeqDiffuse ==
    /\ Due("seq", "diffuse")
    /\ LET c == step.call
       IN  state' = [state EXCEPT ![c.target] =
                        diffuse(step.dt, state[c.target], state[c.source],
                                state[step.diff], c.boundary)]
    /\ Advance /\ UNCHANGED gpu

SeqAdvect ==
    /\ Due("seq", "advect")
    /\ LET c == step.call
       IN  state' = [state EXCEPT ![c.target] =
                        advect(step.dt, state[c.target], state[c.source],
                               state[c.u], state[c.v], c.boundary)]
    /\ Advance /\ UNCHANGED gpu

SeqProject ==
    /\ Due("seq", "project")
    /\ LET c == step.call
           r == project(state[c.u], state[c.v], state[c.p], state[c.div])
       IN  state' = [state EXCEPT ![c.u] = r.u, ![c.v] = r.v, ![c.p] = r.p, ![c.div] = r.div]
    /\ Advance /\ UNCHANGED gpu

SeqFadeStep ==
    /\ Due("seq", "fadeStep")
    /\ state' = [state EXCEPT !.x = fadeStep(state.x, state.densityDecay)]
    /\ Advance /\ UNCHANGED gpu

SeqDraw ==
    /\ Due("seq", "draw")
    /\ Advance /\ UNCHANGED <<state, gpu>>

\* ---- steps of the WebGL driver: one pass each
PassAddFanDensity ==
    /\ Due("gl", "addFanDensity")
    /\ gpu' = GL_addFanDensity(gpu, state.sourceDensity)
    /\ Advance /\ UNCHANGED state

PassAddFanVelocity ==
    /\ Due("gl", "addFanVelocity")
    /\ gpu' = GL_addFanVelocity(gpu)
    /\ Advance /\ UNCHANGED state

\* addMouseDensityForces returns before any pass
MouseForcesReturn ==
    /\ Due("gl", "return")
    /\ Advance /\ UNCHANGED <<state, gpu>>

PassAddMouseDensity ==
    /\ Due("gl", "addMouseDensity")
    /\ gpu' = GL_addMouseDensity(gpu, state.sourceDensity, step.target)
    /\ Advance /\ UNCHANGED state

PassAddMouseVelocity ==
    /\ Due("gl", "addMouseVelocity")
    /\ gpu' = GL_addMouseVelocity(gpu, step.uv, step.target, step.velocity)
    /\ Advance /\ UNCHANGED state

PassSolveLinear ==
    /\ Due("gl", "solveLinear")
    /\ gpu' = GL_solveLinear(gpu, step.x, step.x0, step.a, step.c)
    /\ Advance /\ UNCHANGED state

PassSetBoundary ==
    /\ Due("gl", "setBoundary")
    /\ gpu' = GL_setBoundary(gpu, step.target, step.boundary)
    /\ Advance /\ UNCHANGED state

PassCopyPixels ==
    /\ Due("gl", "copyPixels")
    /\ gpu' = GL_copyPixels(gpu, step.source, step.target)
    /\ Advance /\ UNCHANGED state

PassDivergence ==
    /\ Due("gl", "divergence")
    /\ gpu' = GL_divergence(gpu, step.h, step.target, step.u, step.v)
    /\ Advance /\ UNCHANGED state

PassVelocity ==
    /\ Due("gl", "velocity")
    /\ gpu' = GL_velocity(gpu, step.h, step.uv, step.p, step.direction)
    /\ Advance /\ UNCHANGED state

PassAdvect ==
    /\ Due("gl", "advect")
    /\ gpu' = GL_advect(gpu, step.dt0, step.target, step.source, step.u, step.v)
    /\ Advance /\ UNCHANGED state

PassFade ==
    /\ Due("gl", "fade")
    /\ gpu' = GL_fade(gpu, state.densityDecay)
    /\ Advance /\ UNCHANGED state

PassRender ==
    /\ Due("gl", "render")
    /\ gpu' = GL_render(gpu, step.source)
    /\ Advance /\ UNCHANGED state

Next ==
    \/ MouseDown \/ MouseUp \/ MouseMove
    \/ SeqAddFanDensityForces \/ SeqAddMouseDensityForces
    \/ SeqDiffuse \/ SeqAdvect \/ SeqProject \/ SeqFadeStep \/ SeqDraw
    \/ PassAddFanDensity \/ PassAddFanVelocity \/ MouseForcesReturn
    \/ PassAddMouseDensity \/ PassAddMouseVelocity
    \/ PassSolveLinear \/ PassSetBoundary \/ PassCopyPixels
    \/ PassDivergence \/ PassVelocity \/ PassAdvect \/ PassFade \/ PassRender

Spec == Init /\ [][Next]_vars

\* ===================================== one call on its own (SpecUnit)
\* One solver function, or one pass, is applied once to fields that hold
\* anything: the prior contents are drawn from MaxSeed seeds, velocities of
\* both signs, densities from 0 to beyond 255.

Velocity(s, k) == [idx \in 0..(SIZE - 1) |-> (((idx + 1) * (s + k) + k * s) % 7) - 3]

\* every other cell holds a density 100 times as large
Density(s, k) ==
    [idx \in 0..(SIZE - 1) |->
        (IF (idx + s) % 2 = 0 THEN 100 ELSE 1) * (((idx + 1) * (s + k) + k * s) % 7)]

\* the prior contents of the array or texture called name, the k-th of its
\* variant; still: the velocity (u, v) is zero everywhere
Prior(name, k, s, still) ==
    IF name \in {"x", "x0", "xNext", "x0Next"} THEN Density(s, k)
    ELSE IF still /\ name \in {"u", "v"} THEN Zeros
    ELSE Velocity(s, k)

StateKeys == <<"u", "u0", "v", "v0", "x", "x0">>

InitUnit ==
    /\ variant \in {"seq", "gl"}
    /\ MODE = MODES.Fan
    /\ \E s \in 1..MaxSeed, still \in BOOLEAN :
          /\ \E decay \in 0..MaxDecay :
                state = NewState(MODE, decay,
                                 [k \in 1..6 |-> Prior(StateKeys[k], k, s, still)])
          /\ \E oobMode \in (IF variant = "gl" THEN {"zero", "edge"} ELSE {"zero"}) :
                gpu = NewGL(oobMode,
                            [k \in 1..Len(Names) |-> Prior(Names[k], k, s, still)])
    /\ pc = 0
    /\ frames = 0
    /\ calls = <<>>
    /\ last = NoLast

\* the call sites of diffuse and of advect in velocityStep and densityStep
DiffuseSites == {[NoCall EXCEPT !.fn = "diffuse", !.target = "u0", !.source = "u"],
                 [NoCall EXCEPT !.fn = "diffuse", !.target = "v0", !.source = "v"],
                 [NoCall EXCEPT !.fn = "diffuse", !.target = "x0", !.source = "x"]}

AdvectSites == {[NoCall EXCEPT !.fn = "advect", !.target = "u", !.source = "u0",
                               !.u = "u0", !.v = "v0"],
                [NoCall EXCEPT !.fn = "advect", !.target = "v", !.source = "v0",
                               !.u = "u0", !.v = "v0"],
                [NoCall EXCEPT !.fn = "advect", !.target = "x", !.source = "x0",
                               !.u = "u", !.v = "v"]}

UnitSetBoundary ==
    /\ variant = "seq" /\ last = NoLast
    /\ \E target \in Fields, boundary \in 0..2 :
          /\ state' = [state EXCEPT ![target] = setBoundary(state[target], boundary)]
          /\ last' = [NoLast EXCEPT !.call = [NoCall EXCEPT !.fn = "setBoundary",
                                                !.target = target, !.boundary = boundary],
                                    !.prior = state[target]]
    /\ UNCHANGED <<variant, MODE, gpu, pc, frames, calls>>

UnitGLSetBoundary ==
    /\ variant = "gl" /\ last = NoLast
    /\ \E target \in Fields, boundary \in 0..2 :
          /\ gpu' = GL_setBoundary(gpu, target, boundary)
          /\ last' = [NoLast EXCEPT !.call = [NoCall EXCEPT !.fn = "setBoundary",
                                                !.target = target, !.boundary = boundary],
                                    !.prior = Field(gpu, target)]
    /\ UNCHANGED <<variant, MODE, state, pc, frames, calls>>

UnitDiffuse ==
    /\ variant = "seq" /\ last = NoLast
    /\ \E site \in DiffuseSites, boundary \in 0..2, dt \in 0..MaxDt, diff \in 0..1 :
          /\ state' = [state EXCEPT ![site.target] =
                          diffuse(dt, state[site.target], state[site.source], diff, boundary)]
          /\ last' = [call |-> [site EXCEPT !.boundary = boundary], dt |-> dt,
                      diff |-> diff, prior |-> state[site.target], thrown |-> FALSE]
    /\ UNCHANGED <<variant, MODE, gpu, pc, frames, calls>>

UnitAdvect ==
    /\ variant = "seq" /\ last = NoLast
    /\ \E site \in AdvectSites, boundary \in 0..2, dt \in 0..MaxDt :
          /\ state' = [state EXCEPT ![site.target] =
                          advect(dt, state[site.target], state[site.source],
                                 state[site.u], state[site.v], boundary)]
          /\ last' = [NoLast EXCEPT !.call = [site EXCEPT !.boundary = boundary],
                                    !.dt = dt, !.prior = state[site.target]]
    /\ UNCHANGED <<variant, MODE, gpu, pc, frames, calls>>

\* the advect pass alone: gpu.advect, before index.js's setBoundary
UnitGLAdvect ==
    /\ variant = "gl" /\ last = NoLast
    /\ \E site \in AdvectSites, dt \in 0..MaxDt :
          /\ gpu' = GL_advect(gpu, dt * N, site.target, site.source, site.u, site.v)
          /\ last' = [NoLast EXCEPT !.call = site, !.dt = dt,
                                    !.prior = Field(gpu, site.target)]
    /\ UNCHANGED <<variant, MODE, state, pc, frames, calls>>

UnitFadeStep ==
    /\ variant = "seq" /\ last = NoLast
    /\ state' = [state EXCEPT !.x = fadeStep(state.x, state.densityDecay)]
    /\ last' = [NoLast EXCEPT !.call = [NoCall EXCEPT !.fn = "fade", !.target = "x"],
                              !.prior = state.x]
    /\ UNCHANGED <<variant, MODE, gpu, pc, frames, calls>>

UnitGLFade ==
    /\ variant = "gl" /\ last = NoLast
    /\ gpu' = GL_fade(gpu, state.densityDecay)
    /\ last' = [NoLast EXCEPT !.call = [NoCall EXCEPT !.fn = "fade", !.target = "x"],
                              !.prior = Field(gpu, "x")]
    /\ UNCHANGED <<variant, MODE, state, pc, frames, calls>>

\* run draws what the decay left: draw() and gpu.render('x')
UnitDraw ==
    /\ variant = "seq" /\ last.call.fn = "fade"
    /\ last' = [last EXCEPT !.call.fn = "render"]
    /\ UNCHANGED <<variant, MODE, state, gpu, pc, frames, calls>>

UnitGLRender ==
    /\ variant = "gl" /\ last.call.fn = "fade"
    /\ gpu' = GL_render(gpu, "x")
    /\ last' = [last EXCEPT !.call.fn = "render"]
    /\ UNCHANGED <<variant, MODE, state, pc, frames, calls>>

\* ---- project measured on the grid of TestN by TestN interior cells: the
\* velocity is 1.0 at one cell of one component and 0 elsewhere; p holds
\* what an earlier stage left
Impulse(c) == [k \in 0..((TestN + 2) * (TestN + 2) - 1) |-> IF k = c THEN Scale ELSE 0]

InitProject ==
    /\ variant = "seq"
    /\ MODE = MODES.Fan
    /\ \E c \in 0..((TestN + 2) * (TestN + 2) - 1), horizontal \in BOOLEAN, left \in {0, Scale} :
          state = NewState(MODE, 0,
                     <<IF horizontal THEN Impulse(c) ELSE ZerosN(TestN),
                       [k \in 0..((TestN + 2) * (TestN + 2) - 1) |-> left],
                       IF horizontal THEN ZerosN(TestN) ELSE Impulse(c),
                       ZerosN(TestN), ZerosN(TestN), ZerosN(TestN)>>)
    /\ gpu = NewGL("zero", [k \in 1..Len(Names) |-> Zeros])
    /\ pc = 0
    /\ frames = 0
    /\ calls = <<>>
    /\ last = NoLast

\* project(state.u, state.v, state.u0, state.v0), the second call of velocityStep
UnitProjectN ==
    /\ last = NoLast
    /\ LET r == projectN(TestN, state.u, state.v, state.u0, state.v0)
       IN  state' = [state EXCEPT !.u = r.u, !.v = r.v, !.u0 = r.p, !.v0 = r.div]
    /\ last' = [NoLast EXCEPT !.call = [NoCall EXCEPT !.fn = "project", !.u = "u", !.v = "v",
                                                      !.p = "u0", !.div = "v0"]]
    /\ UNCHANGED <<variant, MODE, gpu, pc, frames, calls>>

NextProject == UnitProjectN

SpecProject == InitProject /\ [][NextProject]_vars

\* ---- one linear solve, a step per sweep and per setBoundary: solveLinear of
\* the sequential file, solveLinearJacobi of index.js. pc counts the steps
\* taken, calls lists them, last holds the arguments of the call.
SolveSites ==
    {[fn |-> "solveLinear", target |-> site.target, source |-> site.source, u |-> "-",
      v |-> "-", p |-> "-", div |-> "-", boundary |-> b, a |-> ac[1], c |-> ac[2]] :
        site \in {[target |-> "u0", source |-> "u"], [target |-> "x0", source |-> "x"]},
        b \in 0..2, ac \in {<<1, 4>>, <<0, 1>>, <<4, 17>>}}

InitSolve ==
    /\ variant \in {"seq", "gl"}
    /\ MODE = MODES.Fan
    /\ \E s \in 1..MaxSeed, still \in BOOLEAN, site \in SolveSites :
          /\ state = NewState(MODE, 0, [k \in 1..6 |-> Prior(StateKeys[k], k, s, still)])
          /\ gpu = NewGL("zero", [k \in 1..Len(Names) |-> Prior(Names[k], k, s, still)])
          /\ last = [NoLast EXCEPT !.call = site,
                                   !.prior = IF variant = "seq" THEN state[site.target]
                                             ELSE Field(gpu, site.target)]
    /\ pc = 0
    /\ frames = 0
    /\ calls = <<>>

\* a loop that leaves once a sweep has changed nothing
SolveSweep_untilConverged ==
    /\ pc % 2 = 0 /\ pc \div 2 < SWEEPS
    /\ LET c == last.call
       IN  IF variant = "seq"
           THEN /\ state' = [state EXCEPT ![c.target] =
                                 solveLinearSweep(state[c.target], state[c.source], c.a, c.c, 1)]
                /\ state' # state
                /\ UNCHANGED gpu
           ELSE /\ gpu' = GL_solveLinear(gpu, c.target, c.source, c.a, c.c)
                /\ Field(gpu', c.target) # Field(gpu, c.target)
                /\ UNCHANGED state
    /\ pc' = pc + 1
    /\ calls' = Append(calls, "solveLinear")
    /\ UNCHANGED <<variant, MODE, frames, last>>

\* the body of the k loop up to setBoundary: k < 20 is the only test
SolveSweep ==
    /\ pc % 2 = 0 /\ pc \div 2 < SWEEPS
    /\ LET c == last.call
       IN  IF variant = "seq"
           THEN /\ state' = [state EXCEPT ![c.target] =
                                 solveLinearSweep(state[c.target], state[c.source], c.a, c.c, 1)]
                /\ UNCHANGED gpu
           ELSE /\ gpu' = GL_solveLinear(gpu, c.target, c.source, c.a, c.c)
                /\ UNCHANGED state
    /\ pc' = pc + 1
    /\ calls' = Append(calls, "solveLinear")
    /\ UNCHANGED <<variant, MODE, frames, last>>

\* setBoundary(x, boundary), the last statement of the loop body; k++
SolveSetBoundary ==
    /\ pc % 2 = 1
    /\ LET c == last.call
       IN  IF variant = "seq"
           THEN /\ state' = [state EXCEPT ![c.target] =
                                 setBoundary(state[c.target], c.boundary)]
                /\ UNCHANGED gpu
           ELSE /\ gpu' = GL_setBoundary(gpu, c.target, c.boundary)
                /\ UNCHANGED state
    /\ pc' = pc + 1
    /\ calls' = Append(calls, "setBoundary")
    /\ UNCHANGED <<variant, MODE, frames, last>>

NextSolve == SolveSweep \/ SolveSetBoundary

\* the loop is straight-line code of one callback: it runs on
SpecSolve == InitSolve /\ [][NextSolve]_vars /\ WF_vars(NextSolve)

\* ---- the forcing calls; prior keeps the three arrays they add to
XUV(x, u, v) == [x |-> x, u |-> u, v |-> v]

UnitAddFanDensityForces ==
    /\ variant = "seq" /\ last = NoLast
    /\ state' = addFanDensityForces(state)
    /\ last' = [NoLast EXCEPT !.call = [NoCall EXCEPT !.fn = "addFanDensityForces"],
                              !.prior = XUV(state.x, state.u, state.v)]
    /\ UNCHANGED <<variant, MODE, gpu, pc, frames, calls>>

\* gpu.addFanDensityForces: its two passes
UnitGLAddFanDensityForces ==
    /\ variant = "gl" /\ last = NoLast
    /\ gpu' = GL_addFanVelocity(GL_addFanDensity(gpu, state.sourceDensity))
    /\ last' = [NoLast EXCEPT !.call = [NoCall EXCEPT !.fn = "addFanDensityForces"],
                              !.prior = XUV(Field(gpu, "x"), Field(gpu, "u"), Field(gpu, "v"))]
    /\ UNCHANGED <<variant, MODE, state, pc, frames, calls>>

\* the button is down and two events have been seen: e0, then e
UnitAddMouseDensityForces ==
    /\ variant = "seq" /\ last = NoLast
    /\ \E e0 \in MousePositions, e \in MousePositions :
          state' = addMouseDensityForces(
                      [state EXCEPT !.mouseDown = TRUE, !.mouse0 = e0, !.mouse = e])
    /\ last' = [NoLast EXCEPT !.call = [NoCall EXCEPT !.fn = "addMouseDensityForces"],
                              !.prior = XUV(state.x, state.u, state.v)]
    /\ UNCHANGED <<variant, MODE, gpu, pc, frames, calls>>

\* index.js addMouseDensityForces and the three passes of
\* gpu.addMouseDensityForces
UnitGLAddMouseDensityForces ==
    /\ variant = "gl" /\ last = NoLast
    /\ \E e0 \in MousePositions, e \in MousePositions :
          LET st     == [state EXCEPT !.mouseDown = TRUE, !.mouse0 = e0, !.mouse = e]
              passes == webgl_addMouseDensityForces(st)
              g1     == GL_addMouseDensity(gpu, st.sourceDensity, passes[1].target)
              g2     == GL_addMouseVelocity(g1, "u", passes[2].target, passes[2].velocity)
          IN  /\ state' = st
              /\ gpu' = GL_addMouseVelocity(g2, "v", passes[3].target, passes[3].velocity)
    /\ last' = [NoLast EXCEPT !.call = [NoCall EXCEPT !.fn = "addMouseDensityForces"],
                              !.prior = XUV(Field(gpu, "x"), Field(gpu, "u"), Field(gpu, "v"))]
    /\ UNCHANGED <<variant, MODE, pc, frames, calls>>

\* ---- setBoundary with a kind that is none of 0, 1, 2
OtherKinds == {-1, 3}

UnitSetBoundaryOther ==
    /\ variant = "seq" /\ last = NoLast
    /\ \E target \in Fields, boundary \in OtherKinds :
          /\ state' = [state EXCEPT ![target] = setBoundary(state[target], boundary)]
          /\ last' = [NoLast EXCEPT !.call = [NoCall EXCEPT !.fn = "setBoundary",
                                                !.target = target, !.boundary = boundary],
                                    !.prior = state[target]]
    /\ UNCHANGED <<variant, MODE, gpu, pc, frames, calls>>

UnitGLSetBoundaryOther ==
    /\ variant = "gl" /\ last = NoLast
    /\ \E target \in Fields, boundary \in OtherKinds :
          /\ gpu' = GL_setBoundary(gpu, target, boundary)
          /\ last' = [NoLast EXCEPT !.call = [NoCall EXCEPT !.fn = "setBoundary",
                                                !.target = target, !.boundary = boundary],
                                    !.prior = Field(gpu, target)]
    /\ UNCHANGED <<variant, MODE, state, pc, frames, calls>>

\* ---- the sequential project in two steps: up to the relaxation (pc = 1),
\* then to its return (pc = 2); prior keeps the four arrays handed in
ProjectSites == {[NoCall EXCEPT !.fn = "project", !.u = "u0", !.v = "v0", !.p = "u", !.div = "v"],
                 [NoCall EXCEPT !.fn = "project", !.u = "u", !.v = "v", !.p = "u0", !.div = "v0"]}

UnitProjectBegin ==
    /\ variant = "seq" /\ last = NoLast
    /\ \E site \in ProjectSites :
          LET r == projectToRelaxation(state[site.u], state[site.v],
                                       state[site.p], state[site.div])
          IN  /\ state' = [state EXCEPT ![site.p] = r.p, ![site.div] = r.div]
              /\ last' = [NoLast EXCEPT !.call = site,
                                        !.prior = [u |-> state[site.u], v |-> state[site.v],
                                                   p |-> state[site.p], div |-> state[site.div]]]
    /\ pc' = 1
    /\ UNCHANGED <<variant, MODE, gpu, frames, calls>>

UnitProjectEnd ==
    /\ variant = "seq" /\ last.call.fn = "project" /\ pc = 1
    /\ LET site == last.call
           r == projectFromRelaxation(state[site.u], state[site.v],
                                      state[site.p], state[site.div])
       IN  state' = [state EXCEPT ![site.u] = r.u, ![site.v] = r.v, ![site.p] = r.p]
    /\ pc' = 2
    /\ UNCHANGED <<variant, MODE, gpu, frames, calls, last>>

\* ---- calls whose target is their source
SelfSites(sites) == {[site EXCEPT !.source = site.target] : site \in sites}

UnitDiffuseSelf ==
    /\ variant = "seq" /\ last = NoLast
    /\ \E site \in SelfSites(DiffuseSites), boundary \in 0..2, dt \in 1..MaxDt, diff \in 0..1 :
          /\ state' = [state EXCEPT ![site.target] =
                          diffuse_aliased(dt, state[site.target], diff, boundary)]
          /\ last' = [call |-> [site EXCEPT !.boundary = boundary], dt |-> dt,
                      diff |-> diff, prior |-> state[site.target], thrown |-> FALSE]
    /\ UNCHANGED <<variant, MODE, gpu, pc, frames, calls>>

UnitAdvectSelf ==
    /\ variant = "seq" /\ last = NoLast
    /\ \E site \in SelfSites(AdvectSites), boundary \in 0..2, dt \in 1..MaxDt :
          /\ state' = [state EXCEPT ![site.target] =
                          advect_aliased(dt, state[site.target], state[site.u],
                                         state[site.v], boundary)]
          /\ last' = [NoLast EXCEPT !.call = [site EXCEPT !.boundary = boundary],
                                    !.dt = dt, !.prior = state[site.target]]
    /\ UNCHANGED <<variant, MODE, gpu, pc, frames, calls>>

\* index.js diffuse: the setBoundary pass, then copyPixels throws
UnitGLDiffuseSelf ==
    /\ variant = "gl" /\ last = NoLast
    /\ \E site \in SelfSites(DiffuseSites), boundary \in 0..2 :
          /\ gpu' = GL_copyPixels(GL_setBoundary(gpu, site.source, boundary),
                                  site.source, site.target)
          /\ last' = [NoLast EXCEPT !.call = [site EXCEPT !.boundary = boundary],
                                    !.prior = Field(gpu, site.target),
                                    !.thrown = (gpu'.op = "throw")]
    /\ UNCHANGED <<variant, MODE, state, pc, frames, calls>>

\* gpu.advect drawing into the texture it samples: the draw call is refused
\* by the context (INVALID_OPERATION, nothing drawn, nothing thrown) or the
\* texels come out of the pass computed from the texture's earlier contents
UnitGLAdvectSelf ==
    /\ variant = "gl" /\ last = NoLast
    /\ \E site \in SelfSites(AdvectSites), dt \in 1..MaxDt, drawn \in BOOLEAN :
          /\ gpu' = IF drawn
                    THEN GL_advect(gpu, dt * N, site.target, site.source, site.u, site.v)
                    ELSE [gpu EXCEPT !.op = "advect", !.field = site.target,
                                     !.before = gpu.textures,
                                     !.reads = {gpu.textures[site.source],
                                                gpu.textures[site.u], gpu.textures[site.v]},
                                     !.write = gpu.textures[site.target]]
          /\ last' = [NoLast EXCEPT !.call = site, !.dt = dt,
                                    !.prior = Field(gpu, site.target)]
    /\ UNCHANGED <<variant, MODE, state, pc, frames, calls>>

NextUnit ==
    \/ UnitSetBoundary \/ UnitGLSetBoundary
    \/ UnitDiffuse
    \/ UnitAdvect \/ UnitGLAdvect
    \/ UnitFadeStep \/ UnitGLFade
    \/ UnitDraw \/ UnitGLRender
    \/ UnitAddFanDensityForces \/ UnitGLAddFanDensityForces
    \/ UnitAddMouseDensityForces \/ UnitGLAddMouseDensityForces
    \/ UnitDiffuseSelf \/ UnitAdvectSelf \/ UnitGLDiffuseSelf \/ UnitGLAdvectSelf
    \/ UnitSetBoundaryOther \/ UnitGLSetBoundaryOther
    \/ UnitProjectBegin \/ UnitProjectEnd

SpecUnit == InitUnit /\ [][NextUnit]_vars

\* ===================================== the indices of a call (SpecIndex)
\* One call is made on seeded fields as in SpecUnit, and calls holds the
\* coordinate pairs (i, j) of every IX(i, j) the call evaluates to read or
\* write an array element.

\* setBoundary: the loop over the four edges, then the four corners
setBoundaryIX ==
    UNION {{<<0, i>>, <<1, i>>, <<N + 1, i>>, <<N, i>>,
            <<i, 0>>, <<i, 1>>, <<i, N + 1>>, <<i, N>>} : i \in 1..N}
    \cup {<<0, 0>>, <<1, 0>>, <<0, 1>>,
          <<0, N + 1>>, <<1, N + 1>>, <<0, N>>,
          <<N + 1, 0>>, <<N, 0>>, <<N + 1, 1>>,
          <<N + 1, N + 1>>, <<N, N + 1>>, <<N + 1, N>>}

\* solveLinear: the five-point update of a sweep, and setBoundary
solveLinearIX ==
    UNION {{<<i, j>>, <<i - 1, j>>, <<i + 1, j>>, <<i, j - 1>>, <<i, j + 1>>} :
           i \in 1..N, j \in 1..N}
    \cup setBoundaryIX

\* an advect whose backtraced position is not clamped
advectCorners_unclamped(i, j, dt0, u, v) ==
    LET x  == i * Q - dt0 * u[IX(i, j)]
        y  == j * Q - dt0 * v[IX(i, j)]
        i0 == IF x >= 0 THEN x \div Q ELSE -((-x) \div Q)
        j0 == IF y >= 0 THEN y \div Q ELSE -((-y) \div Q)
    IN  [i0 |-> i0, i1 |-> i0 + 1, j0 |-> j0, j1 |-> j0 + 1]

\* advect at cell (i, j): the corners i0 = x | 0, i1 = i0 + 1, j0 = y | 0,
\* j1 = j0 + 1 of the clamped backtraced position
advectCorners(i, j, dt0, u, v) ==
    LET x  == advectPos(i, dt0, u[IX(i, j)])
        y  == advectPos(j, dt0, v[IX(i, j)])
        i0 == x \div Q
        j0 == y \div Q
    IN  [i0 |-> i0, i1 |-> i0 + 1, j0 |-> j0, j1 |-> j0 + 1]

\* advect: the cell itself (u, v and target), the four sample corners, and
\* setBoundary
advectIX(dt0, u, v) ==
    UNION {LET c == advectCorners(i, j, dt0, u, v)
           IN  {<<i, j>>, <<c.i0, c.j0>>, <<c.i0, c.j1>>, <<c.i1, c.j0>>, <<c.i1, c.j1>>} :
           i \in 1..N, j \in 1..N}
    \cup setBoundaryIX

\* project: both loops, the four setBoundary calls and solveLinear
projectIX ==
    UNION {{<<i, j>>, <<i + 1, j>>, <<i - 1, j>>, <<i, j + 1>>, <<i, j - 1>>} :
           i \in 1..N, j \in 1..N}
    \cup setBoundaryIX \cup solveLinearIX

IndexSetBoundary ==
    /\ variant = "seq" /\ last = NoLast
    /\ \E target \in Fields, boundary \in 0..2 :
          /\ state' = [state EXCEPT ![target] = setBoundary(state[target], boundary)]
          /\ last' = [NoLast EXCEPT !.call = [NoCall EXCEPT !.fn = "setBoundary",
                                                !.target = target, !.boundary = boundary],
                                    !.prior = state[target]]
    /\ calls' = setBoundaryIX
    /\ UNCHANGED <<variant, MODE, gpu, pc, frames>>

\* solveLinear as diffuse calls it
IndexSolveLinear ==
    /\ variant = "seq" /\ last = NoLast
    /\ \E site \in DiffuseSites, boundary \in 0..2, dt \in 0..MaxDt, diff \in 0..1 :
          /\ state' = [state EXCEPT ![site.target] =
                          diffuse(dt, state[site.target], state[site.source], diff, boundary)]
          /\ last' = [call |-> [site EXCEPT !.fn = "solveLinear", !.boundary = boundary],
                      dt |-> dt, diff |-> diff, prior |-> state[site.target],
                      thrown |-> FALSE]
    /\ calls' = solveLinearIX
    /\ UNCHANGED <<variant, MODE, gpu, pc, frames>>

IndexAdvect ==
    /\ variant = "seq" /\ last = NoLast
    /\ \E site \in AdvectSites, boundary \in 0..2, dt \in 0..MaxDt :
          /\ state' = [state EXCEPT ![site.target] =
                          advect(dt, state[site.target], state[site.source],
                                 state[site.u], state[site.v], boundary)]
          /\ last' = [NoLast EXCEPT !.call = [site EXCEPT !.boundary = boundary],
                                    !.dt = dt, !.prior = state[site.target]]
          /\ calls' = advectIX(dt * N, state[site.u], state[site.v])
    /\ UNCHANGED <<variant, MODE, gpu, pc, frames>>

IndexProject ==
    /\ variant = "seq" /\ last = NoLast
    /\ \E site \in ProjectSites :
          LET r == project(state[site.u], state[site.v], state[site.p], state[site.div])
          IN  /\ state' = [state EXCEPT ![site.u] = r.u, ![site.v] = r.v,
                                        ![site.p] = r.p, ![site.div] = r.div]
              /\ last' = [NoLast EXCEPT !.call = site,
                                        !.prior = [u |-> state[site.u], v |-> state[site.v],
                                                   p |-> state[site.p], div |-> state[site.div]]]
    /\ calls' = projectIX
    /\ UNCHANGED <<variant, MODE, gpu, pc, frames>>

\* ---- the WebGL passes: calls holds the coordinates (x, y) of every
\* texelFetch(., ivec2(x, y), 0) of the fragment shader, over the texels
\* Quad.draw covers: the two triangles span the viewport of CSB by CSB
Texels == {<<k % CSB, k \div CSB>> : k \in 0..(SIZE - 1)}

solveLinearShaderFetches(px, py) ==
    {<<px - 1, py>>, <<px + 1, py>>, <<px, py - 1>>, <<px, py + 1>>, <<px, py>>}

divergenceShaderFetches(px, py) ==
    {<<px - 1, py>>, <<px + 1, py>>, <<px, py - 1>>, <<px, py + 1>>}

velocityShaderFetches(px, py) ==
    {<<px, py>>, <<px - 1, py>>, <<px + 1, py>>, <<px, py - 1>>, <<px, py + 1>>}

advectShaderFetches(px, py, u_u, u_v, u_dt0, oobMode) ==
    LET x  == advectShaderPos(px, u_dt0, texelFetch(u_u, px, py, oobMode))
        y  == advectShaderPos(py, u_dt0, texelFetch(u_v, px, py, oobMode))
        i0 == x \div Q
        i1 == i0 + 1
        j0 == y \div Q
        j1 == j0 + 1
    IN  {<<px, py>>, <<i0, j0>>, <<i0, j1>>, <<i1, j0>>, <<i1, j1>>}

setBoundaryShaderFetches(px, py) ==
    LET sx == CSB - 2
        sy == CSB - 2
    IN  {<<px, py>>}
        \cup (IF px = 0 /\ py >= 1 THEN {<<1, py>>} ELSE {})
        \cup (IF px = sx + 1 /\ py >= 1 THEN {<<sx, py>>} ELSE {})
        \cup (IF px >= 1 /\ py = 0 THEN {<<px, 1>>} ELSE {})
        \cup (IF px >= 1 /\ py = sy + 1 THEN {<<px, sy>>} ELSE {})
        \cup (IF px = 0 /\ py = 0 THEN {<<1, 0>>, <<0, 1>>} ELSE {})
        \cup (IF px = 0 /\ py = sy + 1 THEN {<<1, sy + 1>>, <<0, sy>>} ELSE {})
        \cup (IF px = sx + 1 /\ py = 0 THEN {<<sx, 0>>, <<sx + 1, 1>>} ELSE {})
        \cup (IF px = sx + 1 /\ py = sy + 1 THEN {<<sx, sy + 1>>, <<sx + 1, sy>>} ELSE {})

\* solveLinearJacobi(p, div, 0, 1, 4) of project: the first gpu.solveLinear
IndexGLSolveLinear ==
    /\ variant = "gl" /\ last = NoLast
    /\ \E site \in ProjectSites :
          /\ gpu' = GL_solveLinear(gpu, site.p, site.div, 1, 4)
          /\ last' = [NoLast EXCEPT !.call = [site EXCEPT !.fn = "solveLinear"],
                                    !.prior = Field(gpu, site.p)]
    /\ calls' = UNION {solveLinearShaderFetches(t[1], t[2]) : t \in Texels}
    /\ UNCHANGED <<variant, MODE, state, pc, frames>>

IndexGLDivergence ==
    /\ variant = "gl" /\ last = NoLast
    /\ \E site \in ProjectSites :
          /\ gpu' = GL_divergence(gpu, N, site.div, site.u, site.v)
          /\ last' = [NoLast EXCEPT !.call = [site EXCEPT !.fn = "divergence"],
                                    !.prior = Field(gpu, site.div)]
    /\ calls' = UNION {divergenceShaderFetches(t[1], t[2]) : t \in Texels}
    /\ UNCHANGED <<variant, MODE, state, pc, frames>>

IndexGLVelocity ==
    /\ variant = "gl" /\ last = NoLast
    /\ \E site \in ProjectSites, direction \in 0..1 :
          LET uv == IF direction = 0 THEN site.u ELSE site.v
          IN  /\ gpu' = GL_velocity(gpu, N, uv, site.p, direction)
              /\ last' = [NoLast EXCEPT !.call = [site EXCEPT !.fn = "velocity"],
                                        !.prior = Field(gpu, uv)]
    /\ calls' = UNION {velocityShaderFetches(t[1], t[2]) : t \in Texels}
    /\ UNCHANGED <<variant, MODE, state, pc, frames>>

IndexGLAdvect ==
    /\ variant = "gl" /\ last = NoLast
    /\ \E site \in AdvectSites, dt \in 0..MaxDt :
          /\ gpu' = GL_advect(gpu, dt * N, site.target, site.source, site.u, site.v)
          /\ last' = [NoLast EXCEPT !.call = site, !.dt = dt,
                                    !.prior = Field(gpu, site.target)]
          /\ calls' = UNION {advectShaderFetches(t[1], t[2], Field(gpu, site.u),
                                                 Field(gpu, site.v), dt * N, gpu.oob) :
                             t \in Texels}
    /\ UNCHANGED <<variant, MODE, state, pc, frames>>

IndexGLSetBoundary ==
    /\ variant = "gl" /\ last = NoLast
    /\ \E target \in Fields, boundary \in 0..2 :
          /\ gpu' = GL_setBoundary(gpu, target, boundary)
          /\ last' = [NoLast EXCEPT !.call = [NoCall EXCEPT !.fn = "setBoundary",
                                                !.target = target, !.boundary = boundary],
                                    !.prior = Field(gpu, target)]
    /\ calls' = UNION {setBoundaryShaderFetches(t[1], t[2]) : t \in Texels}
    /\ UNCHANGED <<variant, MODE, state, pc, frames>>

\* ---- the sequential addMouseDensityForces: calls holds the indices at
\* which it writes state.x, state.u and state.v

\* the cells (tx, ty) of the pointer positions inside the canvas:
\* 0 <= cx < width and 0 <= cy < height give tx, ty in 0..N-1
CanvasCells == {[x |-> tx, y |-> ty] : tx \in 0..(N - 1), ty \in 0..(N - 1)}

addMouseDensityForcesWrites(st) ==
    IF ~st.mouseDown \/ st.mouse0 = null THEN {}
    ELSE LET index == st.mouse.x + st.mouse.y * CSB
         IN  {index, index + 1, index - 1, index - CSB, index + CSB}

IndexAddMouseDensityForces ==
    /\ variant = "seq" /\ last = NoLast
    /\ \E e0 \in CanvasCells, e \in CanvasCells :
          LET st == [state EXCEPT !.mouseDown = TRUE, !.mouse0 = e0, !.mouse = e]
          IN  /\ state' = addMouseDensityForces(st)
              /\ calls' = addMouseDensityForcesWrites(st)
    /\ last' = [NoLast EXCEPT !.call = [NoCall EXCEPT !.fn = "addMouseDensityForces"],
                              !.prior = XUV(state.x, state.u, state.v)]
    /\ UNCHANGED <<variant, MODE, gpu, pc, frames>>

NextIndex ==
    \/ IndexSetBoundary \/ IndexSolveLinear \/ IndexAdvect \/ IndexProject
    \/ IndexAddMouseDensityForces
    \/ IndexGLSolveLinear \/ IndexGLDivergence \/ IndexGLVelocity
    \/ IndexGLAdvect \/ IndexGLSetBoundary

SpecIndex == InitUnit /\ [][NextIndex]_vars

\* ============================================================== claims

\* the contents of the field `name` in the variant that runs
FieldNow(name) == IF variant = "seq" THEN state[name] ELSE Field(gpu, name)

Interior == {IX(i, j) : i \in 1..N, j \in 1..N}

\* C1: after setBoundary(field, 0), in the sequential solver and in the WebGL
\* pass alike, every edge ghost cell of the field equals the interior cell
\* next to it: field[0,k] = field[1,k], field[N+1,k] = field[N,k],
\* field[k,0] = field[k,1], field[k,N+1] = field[k,N] for k in 1..N.
C1_ContinuityEdges ==
    (last.call.fn = "setBoundary" /\ last.call.boundary = 0) =>
        LET f == FieldNow(last.call.target)
        IN  \A k \in 1..N :
               /\ f[IX(0, k)] = f[IX(1, k)]
               /\ f[IX(N + 1, k)] = f[IX(N, k)]
               /\ f[IX(k, 0)] = f[IX(k, 1)]
               /\ f[IX(k, N + 1)] = f[IX(k, N)]

\* a WebGL setBoundary pass of kind 0 gave a ghost cell a new, non-zero value
C1_Witness ==
    /\ variant = "gl"
    /\ last.call.fn = "setBoundary" /\ last.call.boundary = 0
    /\ \E k \in 1..N :
          /\ last.prior[IX(0, k)] # last.prior[IX(1, k)]
          /\ FieldNow(last.call.target)[IX(0, k)] # 0

\* C2: after setBoundary(field, 1) the first-index edges are negated copies
\* (field[0,k] = -field[1,k], field[N+1,k] = -field[N,k]) and the second-index
\* edges plain copies; after setBoundary(field, 2) it is the other way round.
\* Both variants.
C2_ReflectEdges ==
    (last.call.fn = "setBoundary" /\ last.call.boundary \in {1, 2}) =>
        LET f  == FieldNow(last.call.target)
            s1 == IF last.call.boundary = 1 THEN -1 ELSE 1
            s2 == IF last.call.boundary = 2 THEN -1 ELSE 1
        IN  \A k \in 1..N :
               /\ f[IX(0, k)] = s1 * f[IX(1, k)]
               /\ f[IX(N + 1, k)] = s1 * f[IX(N, k)]
               /\ f[IX(k, 0)] = s2 * f[IX(k, 1)]
               /\ f[IX(k, N + 1)] = s2 * f[IX(k, N)]

\* a sequential setBoundary of kind 1 put the negation of a non-zero interior
\* value into a ghost cell that did not hold it before
C2_Witness ==
    /\ variant = "seq"
    /\ last.call.fn = "setBoundary" /\ last.call.boundary = 1
    /\ \E k \in 1..N :
          /\ FieldNow(last.call.target)[IX(1, k)] # 0
          /\ FieldNow(last.call.target)[IX(0, k)] = -FieldNow(last.call.target)[IX(1, k)]
          /\ last.prior[IX(0, k)] # -last.prior[IX(1, k)]

\* the four corners of f are the averages of their two edge ghost neighbours
CornersAveraged(f) ==
    /\ f[IX(0, 0)] = FDiv(f[IX(1, 0)] + f[IX(0, 1)], 2)
    /\ f[IX(0, N + 1)] = FDiv(f[IX(1, N + 1)] + f[IX(0, N)], 2)
    /\ f[IX(N + 1, 0)] = FDiv(f[IX(N, 0)] + f[IX(N + 1, 1)], 2)
    /\ f[IX(N + 1, N + 1)] = FDiv(f[IX(N, N + 1)] + f[IX(N + 1, N)], 2)

\* C3: after the sequential setBoundary(field, b), whatever b and the prior
\* contents, each corner ghost cell is the average of its two adjacent edge
\* ghost cells as the call left them.
C3_SeqCorners ==
    (variant = "seq" /\ last.call.fn = "setBoundary") =>
        CornersAveraged(FieldNow(last.call.target))

\* a sequential setBoundary changed an edge ghost cell next to a corner, and
\* the corner changed with it
C3_Witness ==
    /\ variant = "seq"
    /\ last.call.fn = "setBoundary"
    /\ FieldNow(last.call.target)[IX(1, 0)] # last.prior[IX(1, 0)]
    /\ FieldNow(last.call.target)[IX(0, 0)] # last.prior[IX(0, 0)]
    /\ FieldNow(last.call.target)[IX(0, 0)] # 0

\* C4: after a WebGL setBoundary pass, whatever b and the prior contents, each
\* corner ghost cell of the resulting field is the average of its two adjacent
\* edge ghost cells of the resulting field.  (Stated of the frame loop: the
\* pass is one of a tick.)
C4_GLCorners ==
    (variant = "gl" /\ gpu.op = "setBoundary") =>
        CornersAveraged(Field(gpu, gpu.field))

\* C5: the sequential diffuse with diff = 0 leaves every interior cell of
\* target equal to the same cell of source, for any dt, boundary kind and
\* prior contents of target.
C5_DiffuseZeroRate ==
    (variant = "seq" /\ last.call.fn = "diffuse" /\ last.diff = 0) =>
        \A c \in Interior : state[last.call.target][c] = state[last.call.source][c]

\* a diffuse with diff = 0 and dt > 0 overwrote an interior cell of target
\* that differed from the source's
C5_Witness ==
    /\ variant = "seq"
    /\ last.call.fn = "diffuse" /\ last.diff = 0 /\ last.dt > 0
    /\ \E c \in Interior :
          /\ last.prior[c] # state[last.call.source][c]
          /\ state[last.call.target][c] # 0

\* C6: advect with u = v = 0 at every cell leaves every interior cell of the
\* target equal to the source's value there, in the sequential advect and in
\* the WebGL advect pass, for any dt and source contents.  (The call leaves
\* the velocity arrays it reads as they were: target is neither.)
C6_AdvectStill ==
    (/\ last.call.fn = "advect"
     /\ FieldNow(last.call.u) = Zeros
     /\ FieldNow(last.call.v) = Zeros) =>
        \A c \in Interior :
           FieldNow(last.call.target)[c] = FieldNow(last.call.source)[c]

\* a WebGL advect pass with dt > 0 and zero velocity overwrote an interior
\* cell of the target with a different, non-zero value of the source
C6_Witness ==
    /\ variant = "gl"
    /\ last.call.fn = "advect" /\ last.dt > 0
    /\ FieldNow(last.call.u) = Zeros /\ FieldNow(last.call.v) = Zeros
    /\ \E c \in Interior :
          /\ last.prior[c] # FieldNow(last.call.source)[c]
          /\ FieldNow(last.call.target)[c] # 0

\* C7: after the decay step of either variant every cell of x, ghost cells
\* included, lies in [0, 255], and a cell that held 0 holds 0 (the decay is
\* never negative); the density the renderer is handed lies in [0, 255].
C7_DecayClamps ==
    (last.call.fn \in {"fade", "render"}) =>
        \A k \in 0..(SIZE - 1) :
           /\ FieldNow("x")[k] \in 0..255
           /\ last.prior[k] = 0 => FieldNow("x")[k] = 0

\* a decay met a cell above 255, a cell at 0 and a cell the decay takes below
\* 0, and the result has been drawn
C7_Witness ==
    /\ last.call.fn = "render"
    /\ state.densityDecay > 0
    /\ \E k \in 0..(SIZE - 1) : last.prior[k] > 255 /\ FieldNow("x")[k] = 255
    /\ \E k \in 0..(SIZE - 1) : last.prior[k] = 0
    /\ \E k \in 0..(SIZE - 1) :
          last.prior[k] > 0 /\ last.prior[k] < state.densityDecay

\* ---- C8: the stages of a tick

\* the forcing calls of the mode, as the claim's first stage
ForcingStage ==
    IF variant = "seq"
    THEN (IF MODE = MODES.Fan THEN <<[NoCall EXCEPT !.fn = "addFanDensityForces"]>>
          ELSE <<[NoCall EXCEPT !.fn = "addMouseDensityForces"]>>)
    ELSE (IF MODE \in {MODES.Fan, MODES.Dual}
          THEN <<[NoCall EXCEPT !.fn = "addFanDensityForces"]>> ELSE <<>>)
         \o (IF MODE \in {MODES.Mouse, MODES.Dual}
             THEN <<[NoCall EXCEPT !.fn = "addMouseDensityForces"]>> ELSE <<>>)

\* the stages of the claim, then the drawing of the frame
TickStages ==
    ForcingStage \o
    <<[NoCall EXCEPT !.fn = "diffuse", !.target = "u0", !.source = "u", !.boundary = 1],
      [NoCall EXCEPT !.fn = "diffuse", !.target = "v0", !.source = "v", !.boundary = 2],
      [NoCall EXCEPT !.fn = "project", !.u = "u0", !.v = "v0", !.p = "u", !.div = "v"],
      [NoCall EXCEPT !.fn = "advect", !.target = "u", !.source = "u0",
                     !.u = "u0", !.v = "v0", !.boundary = 1],
      [NoCall EXCEPT !.fn = "advect", !.target = "v", !.source = "v0",
                     !.u = "u0", !.v = "v0", !.boundary = 2],
      [NoCall EXCEPT !.fn = "project", !.u = "u", !.v = "v", !.p = "u0", !.div = "v0"],
      [NoCall EXCEPT !.fn = "diffuse", !.target = "x0", !.source = "x", !.boundary = 0],
      [NoCall EXCEPT !.fn = "advect", !.target = "x", !.source = "x0",
                     !.u = "u", !.v = "v", !.boundary = 0],
      [NoCall EXCEPT !.fn = "fade"],
      [NoCall EXCEPT !.fn = "render"]>>

\* the calls begun so far are the first stages of the tick, in order, and a
\* finished frame went through all of them
StagesInOrder ==
    /\ Len(calls) <= Len(TickStages)
    /\ \A k \in 1..Len(calls) : calls[k] = TickStages[k]
    /\ (pc = 0 /\ frames > 0) => calls = TickStages

\* a step of the density diffusion, the only stage between the second
\* projection and the density advection, writes neither u nor v
NoVelocityWrite ==
    (/\ pc' = pc + 1
     /\ step.call.fn = "diffuse" /\ step.call.target = "x0") =>
        /\ FieldNow("u")' = FieldNow("u")
        /\ FieldNow("v")' = FieldNow("v")
        /\ variant = "gl" => gpu'.write \notin {gpu.textures["u"], gpu.textures["v"]}

\* C8: one tick goes, in both variants, through exactly the stages forcing,
\* diffuse u->u0 (1), diffuse v->v0 (2), project (u0,v0; u,v), advect u0->u
\* and v0->v by (u0,v0), project (u,v; u0,v0), diffuse x->x0 (0), advect
\* x0->x by (u,v), decay; and nothing writes u or v between the second
\* projection and the density advection.
C8_TickOrder == []StagesInOrder /\ [][NoVelocityWrite]_vars

\* a frame of the WebGL driver in Dual mode, with the mouse forcing applied,
\* has been through all its stages
C8_Witness ==
    /\ variant = "gl" /\ MODE = MODES.Dual
    /\ pc = 0 /\ frames = 1
    /\ Len(calls) = 12
    /\ state.mouseDown /\ state.mouse0 # null

\* C9: in the WebGL variant no pass draws into a texture that it also
\* samples: the texture attached to the framebuffer is none of those bound
\* to the samplers of the pass (copyPixels: the texture copied from).
C9_WriteNotRead ==
    (variant = "gl" /\ gpu.op \notin {"-", "render"}) => gpu.write \notin gpu.reads

\* every kind of pass has been the latest one at some point; here an advect
\* pass, which draws into the texture the target's own name stands for
C9_Witness ==
    /\ variant = "gl"
    /\ gpu.op = "advect" /\ gpu.field = "u"
    /\ gpu.write = gpu.textures["u"]
    /\ Cardinality(gpu.reads) = 2

\* the names F and FNext were exchanged by the latest pass, and the buffer
\* that was FNext holds what the pass drew
Exchanged ==
    /\ gpu.textures[gpu.field] = gpu.before[NextOf[gpu.field]]
    /\ gpu.textures[NextOf[gpu.field]] = gpu.before[gpu.field]
    /\ gpu.write = gpu.before[NextOf[gpu.field]]

PointerCell ==
    IF variant = "seq" THEN <<state.mouse.x, state.mouse.y>>
    ELSE <<webgl_getCoords(state.mouse).cx, webgl_getCoords(state.mouse).cy>>

PointerVelocity ==
    IF variant = "seq"
    THEN <<state.mouse.x - state.mouse0.x, state.mouse.y - state.mouse0.y>>
    ELSE <<webgl_getCoords(state.mouse).cx - webgl_getCoords(state.mouse0).cx,
           webgl_getCoords(state.mouse).cy - webgl_getCoords(state.mouse0).cy>>

\* the cells of the grid a forcing call targets in field f
Targeted(fn, f) ==
    IF fn = "addFanDensityForces"
    THEN IF f \in {"x", "u"} THEN {IX(1, j) : j \in 0..(N + 1)} ELSE {}
    ELSE IF f = "x"
         THEN {IX(cell[1], cell[2]) :
                  cell \in {c \in {<<PointerCell[1], PointerCell[2]>>,
                                   <<PointerCell[1] - 1, PointerCell[2]>>,
                                   <<PointerCell[1] + 1, PointerCell[2]>>,
                                   <<PointerCell[1], PointerCell[2] - 1>>,
                                   <<PointerCell[1], PointerCell[2] + 1>>} :
                               c[1] \in 0..(N + 1) /\ c[2] \in 0..(N + 1)}}
         ELSE {IX(PointerCell[1], PointerCell[2])}

\* the amount a forcing call injects into cell k of field f
Injected(fn, f, k) ==
    IF fn = "addFanDensityForces"
    THEN IF variant = "seq"
         THEN FDiv((IF f = "x" THEN state.sourceDensity ELSE 40)
                      * (N - Abs(2 * (k \div CSB) - N)), N)
         ELSE FDiv((IF f = "x" THEN state.sourceDensity * 10 ELSE 5)
                      * (CSB - Abs(2 * (k \div CSB) - CSB)), CSB)
    ELSE IF f = "x" THEN state.sourceDensity
         ELSE LET vel == IF f = "u" THEN PointerVelocity[1] ELSE PointerVelocity[2]
              IN  FDiv(vel * 2 * 15, Abs(vel) + 1)

\* C11: after a forcing call of either variant every cell of x, u and v holds
\* its previous value or its previous value plus the injected amount, and the
\* cells that changed are among the targeted ones: column 1 for the fan, the
\* pointer cell and its four neighbours for the mouse density, the pointer
\* cell for the mouse velocity.
C11_ForcingAdds ==
    (last.call.fn \in {"addFanDensityForces", "addMouseDensityForces"}) =>
        \A f \in {"x", "u", "v"} : \A k \in 0..(SIZE - 1) :
           FieldNow(f)[k] # last.prior[f][k] =>
              /\ k \in Targeted(last.call.fn, f)
              /\ FieldNow(f)[k] = last.prior[f][k] + Injected(last.call.fn, f, k)

\* ---- C12: the frames

ForcingFns == {"addFanDensityForces", "addMouseDensityForces"}

\* a step of the driver, as opposed to an event handler
DriverStep == pc' # pc

\* what one step of a frame may be: forcing comes before every other call of
\* its frame; a tick starts once per frame, after the forcing only; the
\* renderer runs right after the decay and ends the frame; nothing else ends a
\* frame
FrameStep ==
    DriverStep =>
       /\ (step.call.fn \in ForcingFns) =>
             (pc = 0 \/ \A k \in 1..Len(calls) : calls[k].fn \in ForcingFns)
       /\ (step.call.fn = "diffuse" /\ step.call.target = "u0"
              /\ (pc = 0 \/ calls[Len(calls)] # step.call)) =>
             (pc = 0 \/ \A k \in 1..Len(calls) : calls[k].fn \in ForcingFns)
       /\ (step.call.fn = "render") =>
             /\ pc > 0 /\ calls[Len(calls)].fn = "fade"
             /\ pc' = 0 /\ frames' = frames + 1
       /\ (step.call.fn = "fade") =>
             /\ pc > 0
             /\ calls[Len(calls)] = [NoCall EXCEPT !.fn = "advect", !.target = "x",
                                       !.source = "x0", !.u = "u", !.v = "v", !.boundary = 0]
             /\ \A k \in 1..Len(calls) : calls[k].fn # "fade"
       /\ (frames' # frames \/ pc' = 0) => step.call.fn = "render"

\* C12: in both drivers a frame applies the forcing, runs one complete tick
\* (velocity step, density step, decay) and only then renders x and gives way
\* to the next frame: the forcing of a frame follows the rendering of the
\* frame before it, a tick starts only after the forcing of its own frame,
\* and the renderer runs only right after the decay.
C12_FrameOrder == [][FrameStep]_vars

\* the second frame has applied its forcing and started its tick, over the
\* density the first frame left
C12_Witness ==
    /\ frames = 1 /\ pc > 0
    /\ Len(calls) = Len(ForcingStage) + 1
    /\ calls[Len(calls)].fn = "diffuse"
    /\ \E k \in 0..(SIZE - 1) : FieldNow("x")[k] > 0

\* ---- C13: a field diffused or advected into itself

\* C13: a diffuse or an advect whose target is its source is rejected with an
\* error instead of computing a result, in the sequential functions and in
\* the WebGL ones.
C13_SelfRejected ==
    (last.call.fn \in {"diffuse", "advect"} /\ last.call.target = last.call.source) =>
        /\ last.thrown
        /\ FieldNow(last.call.target) = last.prior

\* ---- C14: boundary kinds other than 0, 1, 2

\* C14: a setBoundary of either variant with a kind outside {0, 1, 2} is
\* rejected with an error and is not carried out as one of the three kinds.
C14_KindRejected ==
    (last.call.fn = "setBoundary" /\ last.call.boundary \notin 0..2) =>
        /\ last.thrown
        /\ FieldNow(last.call.target) = last.prior

\* ---- C15: the divergence left by project

\* C15: on the grid of 4 by 4 interior cells, after the sequential project
\* the divergence -0.5 * N * ((u[i+1,j] - u[i-1,j]) + (v[i,j+1] - v[i,j-1]))
\* recomputed on the corrected (u, v) is below 1e-3 in magnitude at every
\* interior cell.
C15_DivergenceFree ==
    (last.call.fn = "project") =>
        \A i \in 1..TestN, j \in 1..TestN :
           Abs(divergenceN(TestN, state.u, state.v, i, j)) * 1000 < Scale

\* ---- C16: the sweeps of a linear solve

\* the steps taken so far are sweeps and setBoundary calls in turn, at most
\* SWEEPS of each, and the sequential loop as a whole is solveLinear
SolveShape ==
    /\ Len(calls) = pc /\ pc <= 2 * SWEEPS
    /\ \A k \in 1..Len(calls) :
          calls[k] = IF k % 2 = 1 THEN "solveLinear" ELSE "setBoundary"
    /\ (pc = 2 * SWEEPS /\ variant = "seq") =>
          state[last.call.target] =
             solveLinear(last.prior, state[last.call.source], last.call.boundary,
                         last.call.a, last.call.c)

\* a sweep starts the solve or follows the setBoundary of the sweep before it,
\* with the kind of the call
SweepAfterBoundary ==
    (calls' # calls /\ calls'[Len(calls')] = "solveLinear") =>
        (calls = <<>> \/ calls[Len(calls)] = "setBoundary")

\* C16: a linear solve of either variant performs exactly 20 sweeps whatever
\* the field holds, with no convergence test and no early exit, enforces the
\* boundary of the given kind on x after each sweep and before the next one
\* reads x, and terminates.
C16_TwentySweeps ==
    /\ []SolveShape
    /\ [][SweepAfterBoundary]_vars
    /\ <>(pc = 2 * SWEEPS)
    /\ [](pc = 2 * SWEEPS => [](pc = 2 * SWEEPS))

\* a solve that stopped changing x after its first sweep (a = 0) has gone
\* through all 20
C16_Witness ==
    /\ pc = 2 * SWEEPS
    /\ last.call.a = 0
    /\ Len(calls) = 2 * SWEEPS

\* ---- C17: the WebGL diffuse

\* the step the driver has just taken (pc > 0)
taken == prog[pc]

\* C17: the WebGL diffuse(target, source, boundary) relaxes the diffusion
\* system as the sequential diffuse does: each of its passes is a solveLinear
\* pass on the target that reads the source as x0, or the setBoundary pass on
\* the target that follows it.
C17_GLDiffuseRelaxes ==
    (variant = "gl" /\ pc > 0 /\ taken.call.fn = "diffuse") =>
        /\ gpu.op \in {"solveLinear", "setBoundary"}
        /\ gpu.field = taken.call.target
        /\ (gpu.op = "solveLinear") =>
              gpu.reads = {gpu.before[taken.call.target], gpu.before[taken.call.source]}

\* ---- C18: the update of one WebGL solveLinear pass

\* (x0[i,j] + a * (x[i-1,j] + x[i+1,j] + x[i,j-1] + x[i,j+1])) / c, the
\* update of the sequential solveLinear, from the contents x and x0
SequentialUpdate(x, x0, a, c, i, j) ==
    FDiv(x0[IX(i, j)]
         + a * (x[IX(i - 1, j)] + x[IX(i + 1, j)] + x[IX(i, j - 1)] + x[IX(i, j + 1)]), c)

\* C18: one WebGL solveLinear pass writes at every interior cell, for every
\* pair of coefficients (a, c), the value (x0 + a * (sum of the four
\* neighbours of x)) / c computed from x as it was before the pass.
C18_GLSweepFormula ==
    (variant = "gl" /\ gpu.op = "solveLinear") =>
        \A i \in 1..N, j \in 1..N :
           Field(gpu, last.call.target)[IX(i, j)] =
              SequentialUpdate(gpu.data[gpu.before[last.call.target]],
                               gpu.data[gpu.before[last.call.source]],
                               last.call.a, last.call.c, i, j)

\* ---- C19: the pressure of the sequential project

\* C19: in the sequential project every cell of p, ghost cells included, is 0
\* when the pressure relaxation starts, whatever p held before the call, and
\* what project returns depends neither on the prior contents of p nor on
\* those of div.
C19_SeqPressureZero ==
    (variant = "seq" /\ last.call.fn = "project") =>
        /\ (pc = 1) => state[last.call.p] = Zeros
        /\ (pc = 2) =>
              LET r == project(last.prior.u, last.prior.v, Zeros, Zeros)
              IN  /\ state[last.call.u] = r.u /\ state[last.call.v] = r.v
                  /\ state[last.call.p] = r.p /\ state[last.call.div] = r.div

\* a project has returned that was handed a p and a div with non-zero
\* interior and ghost cells, and it changed the velocity
C19_Witness ==
    /\ variant = "seq" /\ last.call.fn = "project" /\ pc = 2
    /\ \E i \in 1..N : last.prior.p[IX(i, 1)] # 0 /\ last.prior.p[IX(0, i)] # 0
    /\ last.prior.p[IX(0, 0)] # 0
    /\ \E k \in 0..(SIZE - 1) : last.prior.div[k] # 0
    /\ state[last.call.u] # last.prior.u

\* ---- C20: the pressure of the WebGL project

\* the driver is about to make the first solveLinear pass of a project: the
\* passes before it are setBoundary(div, 0) and setBoundary(p, 0)
RelaxationStarts ==
    /\ variant = "gl" /\ pc >= 2
    /\ step.call.fn = "project" /\ step.op = "solveLinear"
    /\ taken.op = "setBoundary" /\ taken.target = step.call.p
    /\ prog[pc - 1].op = "setBoundary" /\ prog[pc - 1].target = step.call.div

\* C20: in the WebGL project p is 0 at every interior cell when the pressure
\* relaxation (solveLinearJacobi) starts, whatever the texture passed as p
\* held before the call.
C20_GLPressureZero ==
    RelaxationStarts =>
        \A i \in 1..N, j \in 1..N : Field(gpu, step.call.p)[IX(i, j)] = 0


\* ---- C21
\* the coordinate the specification samples: the backtrace c - dt0 * vel
\* clamped to [0.5, N + 0.5], in Q-ths
ClampedBacktrace(c, dt0, vel) == clamp(c * Q - dt0 * vel, HalfQ, N * Q + HalfQ)

\* the coordinate the variant at hand samples for the same inputs
SampledCoordinate(c, dt0, vel) ==
    IF variant = "seq" THEN advectPos(c, dt0, vel) ELSE advectShaderPos(c, dt0, vel)

\* C21: after an advect of either variant (target distinct from source), at
\* every interior cell both sampled coordinates are the backtrace clamped to
\* [0.5, N + 0.5], and the value written is the bilinear sample of the source
\* at that position, so that both variants sample the same position.
C21_AdvectClamp ==
    (last.call.fn = "advect" /\ last.call.target # last.call.source) =>
        \A i \in 1..N, j \in 1..N :
            LET dt0 == last.dt * N
                uu  == FieldNow(last.call.u)[IX(i, j)]
                vv  == FieldNow(last.call.v)[IX(i, j)]
            IN  /\ SampledCoordinate(i, dt0, uu) = ClampedBacktrace(i, dt0, uu)
                /\ SampledCoordinate(j, dt0, vv) = ClampedBacktrace(j, dt0, vv)
                /\ FieldNow(last.call.target)[IX(i, j)] =
                      bilinear(FieldNow(last.call.source),
                               ClampedBacktrace(i, dt0, uu),
                               ClampedBacktrace(j, dt0, vv))


\* ---- C22
InGrid(c) == c[1] \in 0..(N + 1) /\ c[2] \in 0..(N + 1)

SeqCalls == {"solveLinear", "setBoundary", "advect", "project"}

\* C22: in the sequential solver, after solveLinear, setBoundary, advect or
\* project on any seeded contents, every pair (i, j) whose IX(i, j) the call
\* read or wrote has 0 <= i <= N+1 and 0 <= j <= N+1; for advect, at every
\* interior cell the corners satisfy 0 <= i0 < i1 = i0 + 1 <= N+1 and
\* 0 <= j0 < j1 = j0 + 1 <= N+1, and the value written is the blend of the
\* source at those four corners.
C22_SeqIndicesInGrid ==
    (variant = "seq" /\ last.call.fn \in SeqCalls) =>
        /\ \A c \in calls : InGrid(c)
        /\ last.call.fn = "advect" =>
              \A i \in 1..N, j \in 1..N :
                 LET dt0 == last.dt * N
                     u   == state[last.call.u]
                     v   == state[last.call.v]
                     src == state[last.call.source]
                     c   == advectCorners(i, j, dt0, u, v)
                     x   == advectPos(i, dt0, u[IX(i, j)])
                     y   == advectPos(j, dt0, v[IX(i, j)])
                     s1  == x - c.i0 * Q
                     t1  == y - c.j0 * Q
                 IN  /\ 0 <= c.i0 /\ c.i0 < c.i1 /\ c.i1 = c.i0 + 1 /\ c.i1 <= N + 1
                     /\ 0 <= c.j0 /\ c.j0 < c.j1 /\ c.j1 = c.j0 + 1 /\ c.j1 <= N + 1
                     /\ {<<c.i0, c.j0>>, <<c.i1, c.j1>>} \subseteq calls
                     /\ InGrid(<<c.i0, c.j0>>) /\ InGrid(<<c.i1, c.j1>>)
                     /\ state[last.call.target][IX(i, j)] =
                           FDiv((Q - s1) * ((Q - t1) * src[IX(c.i0, c.j0)]
                                            + t1 * src[IX(c.i0, c.j1)])
                                + s1 * ((Q - t1) * src[IX(c.i1, c.j0)]
                                        + t1 * src[IX(c.i1, c.j1)]), Q * Q)

\* an advect whose backtrace was clamped at both ends of an axis: one cell
\* sampled at the corner pair (0, 1) and one at (N, N + 1)
C22_Witness ==
    /\ variant = "seq" /\ last.call.fn = "advect"
    /\ \E i \in 1..N, j \in 1..N :
          i * Q - last.dt * N * state[last.call.u][IX(i, j)] > N * Q + HalfQ
    /\ \E i \in 1..N, j \in 1..N :
          i * Q - last.dt * N * state[last.call.u][IX(i, j)] < HalfQ


\* ---- C23
GLPasses == {"solveLinear", "divergence", "velocity", "advect", "setBoundary"}

\* C23: in the WebGL variant, after a solveLinear, divergence, velocity,
\* advect or setBoundary pass, every texel coordinate (x, y) the fragment
\* shader fetched, at any texel the pass was executed on, has 0 <= x <= N+1
\* and 0 <= y <= N+1.
C23_GLFetchesInGrid ==
    (variant = "gl" /\ last.call.fn \in GLPasses) => \A c \in calls : InGrid(c)


\* ---- C24
\* the target cell of the pointer and its four grid neighbours, as indices
TargetAndNeighbours(tx, ty) ==
    {IX(tx, ty), IX(tx - 1, ty), IX(tx + 1, ty), IX(tx, ty - 1), IX(tx, ty + 1)}

\* C24: after the sequential addMouseDensityForces with the pointer at any
\* cell (tx, ty) of the canvas, every index written is in 0..SIZE-1, the
\* neighbours (tx-1, ty), (tx+1, ty), (tx, ty-1), (tx, ty+1) are cells of the
\* grid, and the cells whose density grew are exactly the target cell and
\* these four.
C24_MouseCellsAndIndices ==
    (variant = "seq" /\ last.call.fn = "addMouseDensityForces") =>
        LET tx == state.mouse.x
            ty == state.mouse.y
        IN  /\ \A index \in calls : index \in 0..(SIZE - 1)
            /\ \A c \in {<<tx - 1, ty>>, <<tx + 1, ty>>, <<tx, ty - 1>>, <<tx, ty + 1>>} :
                  InGrid(c)
            /\ {k \in 0..(SIZE - 1) : state.x[k] # last.prior.x[k]}
                  = TargetAndNeighbours(tx, ty)


\* ---- C25
\* a tick has just ended: update and the drawing of a frame are complete
TickEnded == pc = 0 /\ frames > 0

\* C25: at the end of every tick, in both variants and every mode, u holds
\* the kind-1 relation (u[0,k] = -u[1,k], u[N+1,k] = -u[N,k], u[k,0] = u[k,1],
\* u[k,N+1] = u[k,N]) and v the kind-2 relation (v[k,0] = -v[k,1],
\* v[k,N+1] = -v[k,N], v[0,k] = v[1,k], v[N+1,k] = v[N,k]), for k in 1..N.
C25_TickEndVelocityBoundary ==
    TickEnded =>
        LET u == FieldNow("u")
            v == FieldNow("v")
        IN  \A k \in 1..N :
               /\ u[IX(0, k)] = -u[IX(1, k)]
               /\ u[IX(N + 1, k)] = -u[IX(N, k)]
               /\ u[IX(k, 0)] = u[IX(k, 1)]
               /\ u[IX(k, N + 1)] = u[IX(k, N)]
               /\ v[IX(k, 0)] = -v[IX(k, 1)]
               /\ v[IX(k, N + 1)] = -v[IX(k, N)]
               /\ v[IX(0, k)] = v[IX(1, k)]
               /\ v[IX(N + 1, k)] = v[IX(N, k)]

\* the end of a WebGL tick whose u and v are not zero next to a wall
C25_Witness ==
    /\ TickEnded /\ variant = "gl"
    /\ \E k \in 1..N, i \in {1, N} : FieldNow("u")[IX(i, k)] # 0
    /\ \E k \in 1..N, j \in {1, N} : FieldNow("v")[IX(k, j)] # 0


\* ---- C26
\* the step injects mouse forcing: the sequential addMouseDensityForces adds
\* density, or a pass of gpu.addMouseDensityForces is made
MouseInjects ==
    /\ DriverStep
    /\ IF variant = "seq"
       THEN step.op = "addMouseDensityForces" /\ state'.x # state.x
       ELSE step.op \in {"addMouseDensity", "addMouseVelocity"}

\* state.mouse is set by the first mousemove, which leaves state.mouse0 null;
\* state.mouse0 is set only by a mousemove that finds state.mouse set, that
\* is by the second mousemove or a later one, and takes its value
MouseStep ==
    /\ MouseInjects =>
          state.mouseDown /\ state.mouse0 # null /\ state.mouse # null
    /\ state.mouse0 # null => state.mouse # null
    /\ state'.mouse0 # null => state'.mouse # null
    /\ (state.mouse = null /\ state'.mouse # null) => state'.mouse0 = null
    /\ state'.mouse0 # state.mouse0 =>
          (state.mouse # null /\ state'.mouse0 = state.mouse)

\* C26: for any interleaving of mousedown, mousemove and mouseup with frames,
\* in both variants, mouse forcing is injected only while the button is down
\* and after at least two mousemove events, getCoords never gets a null event,
\* and state.mouse0 # null implies state.mouse # null in every state.
C26_MouseForcingGuard == [][MouseStep]_vars

\* the first pass of gpu.addMouseDensityForces was made, after two mousemove
\* events at different positions and a mousedown
C26_Witness ==
    /\ variant = "gl" /\ MODE = MODES.Mouse /\ pc = 1
    /\ state.mouseDown /\ state.mouse0 # null /\ state.mouse # state.mouse0
    /\ FieldNow("x") # Zeros


\* ---- C27
\* the 12 logical texture names
LogicalNames == {Names[k] : k \in 1..Len(Names)}

\* the names of g refer to pairwise-distinct textures, the ones they held
\* after start-up in some order
Permuted(g) ==
    /\ \A m \in LogicalNames, n \in LogicalNames :
          m # n => g.textures[m] # g.textures[n]
    /\ {g.textures[n] : n \in LogicalNames} = {setupTextures[n] : n \in LogicalNames}

\* what a step of the WebGL driver does to the names and to the textures
TextureStep ==
    variant = "gl" =>
       /\ Permuted(gpu) /\ Permuted(gpu')
       /\ gpu'.textures # gpu.textures =>
             LET F == gpu'.field
             IN  /\ F \in Fields
                 /\ gpu'.textures[F] = gpu.textures[NextOf[F]]
                 /\ gpu'.textures[NextOf[F]] = gpu.textures[F]
                 /\ \A n \in DOMAIN gpu.textures \ {F, NextOf[F]} :
                       gpu'.textures[n] = gpu.textures[n]
       /\ DOMAIN gpu'.data = DOMAIN gpu.data
       /\ \A t \in DOMAIN gpu.data :
             gpu'.data[t] # gpu.data[t] => (gpu' # gpu /\ t = gpu'.write)

\* C27: in the WebGL variant, in every state the frames reach, the 12 logical
\* names refer to 12 pairwise-distinct textures, a permutation of those they
\* held after start-up; a step that changes the names exchanges the textures
\* of one field F and FNext only, and the only texture whose contents a step
\* changes is the one the pass draws into.
C27_TexturesPermuted == [][TextureStep]_vars

\* u and x have been swapped an odd number of times and x holds density
C27_Witness ==
    /\ variant = "gl"
    /\ gpu.textures["u"] = setupTextures["uNext"]
    /\ gpu.textures["x"] = setupTextures["xNext"]
    /\ gpu.textures["v"] = setupTextures["v"]
    /\ Field(gpu, "x") # Zeros


\* ---- C28
\* the step is a boundary enforcement on the field last'.call.target
SetBoundaryStep ==
    (last.call.fn # "setBoundary" /\ last'.call.fn = "setBoundary") =>
        \A t \in Fields :
           t = last'.call.target =>
              /\ \A i \in 1..N, j \in 1..N :
                    FieldNow(t)'[IX(i, j)] = FieldNow(t)[IX(i, j)]
              /\ \A f \in Fields \ {t} : FieldNow(f)' = FieldNow(f)

\* C28: a boundary enforcement, sequential or WebGL, of any kind, leaves every
\* interior cell (1 <= i, j <= N) of the enforced field as it was and changes
\* the contents of no other field.
C28_SetBoundaryFrame == [][SetBoundaryStep]_vars

\* a WebGL enforcement of kind 1 that changed ghost cells of a field whose
\* interior is not zero
C28_Witness ==
    /\ variant = "gl" /\ last.call.fn = "setBoundary" /\ last.call.boundary = 1
    /\ FieldNow(last.call.target) # last.prior
    /\ \E i \in 1..N, j \in 1..N : last.prior[IX(i, j)] # 0


\* ---- C29
RECURSIVE MinOver(_, _)
MinOver(f, k) == IF k = 0 THEN f[0] ELSE Min2(f[k], MinOver(f, k - 1))

RECURSIVE MaxOver(_, _)
MaxOver(f, k) == IF k = 0 THEN f[0] ELSE Max2(f[k], MaxOver(f, k - 1))

\* C29: after an advect of either variant (target distinct from source), at
\* every interior cell the weights s1 = x - i0, s0 = 1 - s1, t1 = y - j0,
\* t0 = 1 - t1 of the sampled position are in [0, 1] with s0 + s1 = 1 and
\* t0 + t1 = 1 (in Q-ths: in 0..Q, summing to Q), the value written is the
\* blend s0 (t0 a + t1 b) + s1 (t0 c + t1 d) of the four source cells at the
\* corners, it lies between the least and the greatest value of the source
\* field, and it is not negative when no source cell is.
C29_AdvectConvex ==
    (last.call.fn = "advect" /\ last.call.target # last.call.source) =>
        LET dt0 == last.dt * N
            src == FieldNow(last.call.source)
            lo  == MinOver(src, SIZE - 1)
            hi  == MaxOver(src, SIZE - 1)
        IN  \A i \in 1..N, j \in 1..N :
               LET x  == SampledCoordinate(i, dt0, FieldNow(last.call.u)[IX(i, j)])
                   y  == SampledCoordinate(j, dt0, FieldNow(last.call.v)[IX(i, j)])
                   i0 == x \div Q
                   j0 == y \div Q
                   s1 == x - i0 * Q
                   s0 == Q - s1
                   t1 == y - j0 * Q
                   t0 == Q - t1
                   r  == FieldNow(last.call.target)[IX(i, j)]
               IN  /\ s0 \in 0..Q /\ s1 \in 0..Q /\ s0 + s1 = Q
                   /\ t0 \in 0..Q /\ t1 \in 0..Q /\ t0 + t1 = Q
                   /\ i0 \in 0..N /\ j0 \in 0..N
                   /\ r = FDiv(s0 * (t0 * src[IX(i0, j0)] + t1 * src[IX(i0, j0 + 1)])
                               + s1 * (t0 * src[IX(i0 + 1, j0)]
                                       + t1 * src[IX(i0 + 1, j0 + 1)]), Q * Q)
                   /\ lo <= r /\ r <= hi
                   /\ (lo >= 0 => r >= 0)

\* a WebGL advect that sampled between cell centres on both axes and wrote a
\* value strictly between the least and the greatest of the source
C29_Witness ==
    /\ variant = "gl" /\ last.call.fn = "advect" /\ last.call.target # last.call.source
    /\ \E i \in 1..N, j \in 1..N :
          LET dt0 == last.dt * N
              src == FieldNow(last.call.source)
              x   == SampledCoordinate(i, dt0, FieldNow(last.call.u)[IX(i, j)])
              y   == SampledCoordinate(j, dt0, FieldNow(last.call.v)[IX(i, j)])
              r   == FieldNow(last.call.target)[IX(i, j)]
          IN  /\ x % Q # 0 /\ y % Q # 0
              /\ MinOver(src, SIZE - 1) < r /\ r < MaxOver(src, SIZE - 1)


\* ---- C30
\* C30: at the end of every tick, after the decay, in both variants, every
\* edge ghost cell of the density x equals the interior cell next to it:
\* x[0,k] = x[1,k], x[N+1,k] = x[N,k], x[k,0] = x[k,1], x[k,N+1] = x[k,N] for
\* k in 1..N.
C30_TickEndDensityBoundary ==
    TickEnded =>
        LET x == FieldNow("x")
        IN  \A k \in 1..N :
               /\ x[IX(0, k)] = x[IX(1, k)]
               /\ x[IX(N + 1, k)] = x[IX(N, k)]
               /\ x[IX(k, 0)] = x[IX(k, 1)]
               /\ x[IX(k, N + 1)] = x[IX(k, N)]

\* the end of a sequential tick with a positive decay whose density is not
\* zero in a ghost cell of an edge
C30_Witness ==
    /\ TickEnded /\ variant = "seq" /\ state.densityDecay > 0
    /\ \E k \in 1..N : state.x[IX(0, k)] > 0

====
